---- MODULE Spec2Model ----
(***************************************************************************)
(* A model of the kitchen-fridge synchronisation engine: a Provider that   *)
(* pairs a local Cache with a remote CalDAV source and reconciles them     *)
(* calendar by calendar (src/src/provider/mod.rs), the CachedCalendar      *)
(* operations it calls (src/src/calendar/cached_calendar.rs), the Cache    *)
(* source (src/src/cache.rs) and the per-item sync status                  *)
(* (src/src/item.rs, src/src/task.rs).                                     *)
(*                                                                         *)
(* The remote source is the one the integration tests run against: a Cache *)
(* whose calendars force a Synced status with a new version tag on every   *)
(* write, and whose operations fail when the fault injector says so.  A    *)
(* remote write is split in two steps, the effect on the server and the    *)
(* return of its result to the engine, because the HTTP calendar suspends  *)
(* between the two (src/src/calendar/remote_calendar.rs).                  *)
(***************************************************************************)
EXTENDS Integers, Sequences, FiniteSets, TLC

(***************************************************************************)
(* Bounds of the model.                                                    *)
(***************************************************************************)
\* How many remote operations may fail in one behaviour.
MaxFaults == 2

\* How many calls the user makes on the local source before the first sync.
MaxUserOps == 3

\* How many calls another task makes on the calendars while syncs run.
MaxConcurrentOps == 2
MaxSaves == 2
MaxPopulates == 4
MaxTag == 2

\* The largest m and n a fault injector is configured with.
MaxCount == 1

\* How many calls are made on one fault injector.
MaxCalls == 4

\* src/src/provider/mod.rs:27 (the value the test build uses).
DOWNLOAD_BATCH_SIZE == 3

CalendarIds == {"c1", "c2"}

\* The item URLs that may live in each calendar (an item URL is the calendar
\* URL joined with an identifier, src/src/item.rs:103-107).
UrlsOf(c) == IF c = "c1" THEN {"c1/a", "c1/b"} ELSE {"c2/d"}

ItemUrls == UNION {UrlsOf(c) : c \in CalendarIds}

SetMax(S) == IF S = {} THEN 0 ELSE CHOOSE x \in S : \A y \in S : y <= x

(***************************************************************************)
(* SyncStatus (src/src/item.rs:190-200).  tag is 0 where the variant       *)
(* carries no version tag.                                                 *)
(***************************************************************************)
NotSynced == [kind |-> "NotSynced", tag |-> 0]
Synced(v) == [kind |-> "Synced", tag |-> v]
LocallyModified(v) == [kind |-> "LocallyModified", tag |-> v]
LocallyDeleted(v) == [kind |-> "LocallyDeleted", tag |-> v]

\* Task::new_with_parameters: the fields the engine and the tests observe.
NewTask(url, name, completed, ss) ==
    [url |-> url, name |-> name, completed |-> completed, sync_status |-> ss]

\* Item::set_sync_status / Task::set_sync_status
set_sync_status(item, ss) == [item EXCEPT !.sync_status = ss]

\* update_sync_status, but a Synced item stays Synced.
update_sync_status_keeps_synced(item) == item

\* Task::update_sync_status: what a user edit does to the status.
update_sync_status(item) ==
    IF item.sync_status.kind = "Synced"
    THEN [item EXCEPT !.sync_status = LocallyModified(item.sync_status.tag)]
    ELSE item

\* Task::set_name
set_name(item, new_name) == [update_sync_status(item) EXCEPT !.name = new_name]

\* Task::set_completion_status
set_completion_status(item, c) == [update_sync_status(item) EXCEPT !.completed = c]

\* Task::mock_remote_calendar_set_name: a server-side edit, which gets a new
\* version tag (SyncStatus::random_synced()).
mock_remote_calendar_set_name(item, new_name, newTag) ==
    [item EXCEPT !.sync_status = Synced(newTag), !.name = new_name]

\* Task::mock_remote_calendar_set_completion_status
mock_remote_calendar_set_completion_status(item, c, newTag) ==
    [item EXCEPT !.sync_status = Synced(newTag), !.completed = c]

(***************************************************************************)
(* CachedCalendar.  items is the HashMap<Url, Item>: a function whose      *)
(* domain is the set of URLs present.                                      *)
(***************************************************************************)
\* HashMap::new()
EmptyMap == [u \in {} |-> 0]

\* CompleteCalendar::new for CachedCalendar
NewCalendar(name, url, comps, color) ==
    [name |-> name, url |-> url, supported_components |-> comps, color |-> color,
     items |-> EmptyMap]

\* HashMap::insert on the items of a calendar
InsertItem(cal, item) ==
    [cal EXCEPT !.items = [u \in (DOMAIN cal.items) \cup {item.url} |->
                              IF u = item.url THEN item ELSE cal.items[u]]]

\* HashMap::remove on the items of a calendar
RemoveItem(cal, url) ==
    [cal EXCEPT !.items = [u \in (DOMAIN cal.items) \ {url} |-> cal.items[u]]]

\* CachedCalendar::get_item_urls_sync
get_item_urls(cal) == DOMAIN cal.items

\* CachedCalendar::regular_add_or_update_item: a local calendar stores the
\* item as it is and returns the status the caller supplied.
regular_add_or_update_item(cal, item) ==
    [ok |-> TRUE, cal |-> InsertItem(cal, item), ss |-> item.sync_status]

\* add_or_update_item_force_synced, but the status returned to the caller
\* is the one the caller supplied, not the one stored.
force_synced_returns_supplied(cal, item, newTag) ==
    LET forced == IF item.sync_status.kind = "Synced" THEN item
                  ELSE [item EXCEPT !.sync_status = Synced(newTag)]
    IN [ok |-> TRUE, cal |-> InsertItem(cal, forced), ss |-> item.sync_status]

\* CachedCalendar::add_or_update_item_force_synced: a mocked remote calendar
\* keeps a Synced status and replaces any other by a new random Synced one.
add_or_update_item_force_synced(cal, item, newTag) ==
    LET forced == IF item.sync_status.kind = "Synced" THEN item
                  ELSE set_sync_status(item, Synced(newTag))
    IN [ok |-> TRUE, cal |-> InsertItem(cal, forced), ss |-> forced.sync_status]

\* The result of an operation that failed: the calendar is as it was.
Failed(cal) == [ok |-> FALSE, cal |-> cal, ss |-> NotSynced]

\* local_add_item, but an item that exists is replaced.
local_add_item_replaces(cal, item) == regular_add_or_update_item(cal, item)

\* CachedCalendar::add_item_sync on a local calendar
local_add_item(cal, item) ==
    IF item.url \in DOMAIN cal.items THEN Failed(cal)
    ELSE regular_add_or_update_item(cal, item)

\* local_update_item, but an item that is missing is inserted.
local_update_item_inserts(cal, item) == regular_add_or_update_item(cal, item)

\* CachedCalendar::update_item_sync on a local calendar
local_update_item(cal, item) ==
    IF item.url \notin DOMAIN cal.items THEN Failed(cal)
    ELSE regular_add_or_update_item(cal, item)

\* CachedCalendar::add_item_sync on a mocked remote calendar, once the fault
\* injector let the call through (add_item_maybe_mocked)
remote_add_item(cal, item, newTag) ==
    IF item.url \in DOMAIN cal.items THEN Failed(cal)
    ELSE add_or_update_item_force_synced(cal, item, newTag)

\* CachedCalendar::update_item_sync on a mocked remote calendar
\* (update_item_maybe_mocked)
remote_update_item(cal, item, newTag) ==
    IF item.url \notin DOMAIN cal.items THEN Failed(cal)
    ELSE add_or_update_item_force_synced(cal, item, newTag)

\* mark_for_deletion, but an item that was never synced gets a tombstone
\* like the others.
mark_for_deletion_keeps_unsynced(cal, url) ==
    IF url \notin DOMAIN cal.items THEN Failed(cal)
    ELSE LET ss == cal.items[url].sync_status
         IN [ok |-> TRUE,
             cal |-> [cal EXCEPT !.items[url].sync_status = LocallyDeleted(ss.tag)],
             ss |-> LocallyDeleted(ss.tag)]

\* mark_for_deletion, but the item is removed whatever its status.
mark_for_deletion_removes(cal, url) ==
    IF url \notin DOMAIN cal.items THEN Failed(cal)
    ELSE [ok |-> TRUE, cal |-> RemoveItem(cal, url), ss |-> NotSynced]

\* CachedCalendar::mark_for_deletion_sync
mark_for_deletion(cal, url) ==
    IF url \notin DOMAIN cal.items THEN Failed(cal)
    ELSE LET ss == cal.items[url].sync_status
         IN IF ss.kind = "NotSynced"
            THEN [ok |-> TRUE, cal |-> RemoveItem(cal, url), ss |-> NotSynced]
            ELSE [ok |-> TRUE,
                  cal |-> [cal EXCEPT !.items[url].sync_status = LocallyDeleted(ss.tag)],
                  ss |-> LocallyDeleted(ss.tag)]

\* CachedCalendar::immediately_delete_item_sync
immediately_delete_item(cal, url) ==
    IF url \notin DOMAIN cal.items THEN Failed(cal)
    ELSE [ok |-> TRUE, cal |-> RemoveItem(cal, url), ss |-> NotSynced]

\* DavCalendar::delete_item for a mocked remote calendar
remote_delete_item(cal, url) == immediately_delete_item(cal, url)

\* DavCalendar::get_item_version_tags for a mocked remote calendar
get_item_version_tags(cal) ==
    [u \in DOMAIN cal.items |-> cal.items[u].sync_status.tag]

\* DavCalendar::get_items_by_url: the items the server holds among the
\* requested URLs (the reply lists no entry for the others).
get_items_by_url(cal, urls) == {cal.items[u] : u \in urls \cap DOMAIN cal.items}

(***************************************************************************)
(* Cache: the HashMap<CalendarId, Arc<Mutex<CachedCalendar>>>, a function  *)
(* whose domain is the set of calendar URLs present.                       *)
(***************************************************************************)
\* Cache::get_calendar_sync
has_calendar(source, id) == id \in DOMAIN source

\* create_calendar, but replacing a calendar is no error.
create_calendar_replaces(source, id, name, comps, color) ==
    [ok |-> TRUE,
     source |-> [c \in (DOMAIN source) \cup {id} |->
                    IF c = id THEN NewCalendar(name, id, comps, color) ELSE source[c]]]

\* create_calendar, but the new calendar is returned without being stored.
create_calendar_forgets(source, id, name, comps, color) ==
    [ok |-> TRUE, source |-> source]

\* Cache::create_calendar once the fault injector let the call through: the
\* new calendar is inserted whatever the map held, and the call reports an
\* error when it replaced one.
create_calendar(source, id, name, comps, color) ==
    [ok |-> id \notin DOMAIN source,
     source |-> [c \in (DOMAIN source) \cup {id} |->
                    IF c = id THEN NewCalendar(name, id, comps, color) ELSE source[c]]]

(***************************************************************************)
(* Provider::sync_calendar_pair, step 1: the six sets of differences.      *)
(* remote_items is the URL -> version tag map the remote calendar returned.*)
(***************************************************************************)
\* The URLs the remote pass of the classification puts in a set, by the
\* kind of local status and whether the tags are equal.
RemotePass(cal_local, remote_items, kinds, same) ==
    {u \in DOMAIN remote_items :
        /\ u \in DOMAIN cal_local.items
        /\ cal_local.items[u].sync_status.kind \in kinds
        /\ (remote_items[u] = cal_local.items[u].sync_status.tag) = same}

\* The URLs of the local pass: the local items the remote does not hold.
LocalPass(cal_local, remote_items, kinds) ==
    {u \in (DOMAIN cal_local.items) \ (DOMAIN remote_items) :
        cal_local.items[u].sync_status.kind \in kinds}

\* UrlReuse, but no item is reported.
UrlReuseUnreported(cal_local, remote_items) == {}

\* A local NotSynced item whose URL the remote holds too.
UrlReuse(cal_local, remote_items) ==
    {u \in (DOMAIN remote_items) \cap (DOMAIN cal_local.items) :
        cal_local.items[u].sync_status.kind = "NotSynced"}

\* The conflicts the remote wins: they are logged with progress.info.
Conflicts(cal_local, remote_items) ==
    RemotePass(cal_local, remote_items, {"LocallyModified", "LocallyDeleted"}, FALSE)
        \cup LocalPass(cal_local, remote_items, {"LocallyModified"})

\* Classify, but every local tombstone is pushed to the remote, whether the
\* remote still holds the item or not.
ClassifyPushesEveryTombstone(cal_local, remote_items) ==
    [local_del |-> RemotePass(cal_local, remote_items, {"LocallyDeleted"}, TRUE)
                   \cup LocalPass(cal_local, remote_items, {"LocallyDeleted"}),
     remote_del |-> LocalPass(cal_local, remote_items, {"Synced", "LocallyModified"}),
     local_changes |-> RemotePass(cal_local, remote_items, {"LocallyModified"}, TRUE),
     remote_changes |-> RemotePass(cal_local, remote_items,
                           {"Synced", "LocallyModified", "LocallyDeleted"}, FALSE),
     local_additions |-> LocalPass(cal_local, remote_items, {"NotSynced"}),
     remote_additions |-> (DOMAIN remote_items) \ (DOMAIN cal_local.items)]

\* Classify, but a local tombstone wins against a remote edit: the item is
\* deleted from the remote whatever version the remote holds.
ClassifyTombstoneWins(cal_local, remote_items) ==
    [local_del |-> RemotePass(cal_local, remote_items, {"LocallyDeleted"}, TRUE)
                   \cup RemotePass(cal_local, remote_items, {"LocallyDeleted"}, FALSE),
     remote_del |-> LocalPass(cal_local, remote_items,
                              {"Synced", "LocallyDeleted", "LocallyModified"}),
     local_changes |-> RemotePass(cal_local, remote_items, {"LocallyModified"}, TRUE),
     remote_changes |-> RemotePass(cal_local, remote_items,
                           {"Synced", "LocallyModified"}, FALSE),
     local_additions |-> LocalPass(cal_local, remote_items, {"NotSynced"}),
     remote_additions |-> (DOMAIN remote_items) \ (DOMAIN cal_local.items)]

\* Classify, but an item modified locally that the remote no longer holds
\* is a local addition: it is created again on the remote.
ClassifyRecreatesLocalEdits(cal_local, remote_items) ==
    [local_del |-> RemotePass(cal_local, remote_items, {"LocallyDeleted"}, TRUE),
     remote_del |-> LocalPass(cal_local, remote_items, {"Synced", "LocallyDeleted"}),
     local_changes |-> RemotePass(cal_local, remote_items, {"LocallyModified"}, TRUE),
     remote_changes |-> RemotePass(cal_local, remote_items,
                           {"Synced", "LocallyModified", "LocallyDeleted"}, FALSE),
     local_additions |-> LocalPass(cal_local, remote_items,
                                   {"NotSynced", "LocallyModified"}),
     remote_additions |-> (DOMAIN remote_items) \ (DOMAIN cal_local.items)]

\* Classify, but an item modified locally since the version the remote
\* holds is not a local change.
ClassifyWithoutLocalChanges(cal_local, remote_items) ==
    [local_del |-> RemotePass(cal_local, remote_items, {"LocallyDeleted"}, TRUE),
     remote_del |-> LocalPass(cal_local, remote_items,
                              {"Synced", "LocallyDeleted", "LocallyModified"}),
     local_changes |-> {},
     remote_changes |-> RemotePass(cal_local, remote_items,
                           {"Synced", "LocallyModified", "LocallyDeleted"}, FALSE),
     local_additions |-> LocalPass(cal_local, remote_items, {"NotSynced"}),
     remote_additions |-> (DOMAIN remote_items) \ (DOMAIN cal_local.items)]

\* Classify, but a local modification wins a conflict.
ClassifyLocalWins(cal_local, remote_items) ==
    [local_del |-> RemotePass(cal_local, remote_items, {"LocallyDeleted"}, TRUE),
     remote_del |-> LocalPass(cal_local, remote_items,
                              {"Synced", "LocallyDeleted", "LocallyModified"}),
     local_changes |-> RemotePass(cal_local, remote_items, {"LocallyModified"}, TRUE)
                       \cup RemotePass(cal_local, remote_items, {"LocallyModified"}, FALSE),
     remote_changes |-> RemotePass(cal_local, remote_items,
                           {"Synced", "LocallyDeleted"}, FALSE),
     local_additions |-> LocalPass(cal_local, remote_items, {"NotSynced"}),
     remote_additions |-> (DOMAIN remote_items) \ (DOMAIN cal_local.items)]

\* Classify, but a tombstone of an item the remote no longer holds is left
\* alone.
ClassifyKeepsTombstones(cal_local, remote_items) ==
    [local_del |-> RemotePass(cal_local, remote_items, {"LocallyDeleted"}, TRUE),
     remote_del |-> LocalPass(cal_local, remote_items, {"Synced", "LocallyModified"}),
     local_changes |-> RemotePass(cal_local, remote_items, {"LocallyModified"}, TRUE),
     remote_changes |-> RemotePass(cal_local, remote_items,
                           {"Synced", "LocallyModified", "LocallyDeleted"}, FALSE),
     local_additions |-> LocalPass(cal_local, remote_items, {"NotSynced"}),
     remote_additions |-> (DOMAIN remote_items) \ (DOMAIN cal_local.items)]

\* Classify, but an item modified on both sides is a local change as well
\* as a remote change.
ClassifyConflictTwice(cal_local, remote_items) ==
    [local_del |-> RemotePass(cal_local, remote_items, {"LocallyDeleted"}, TRUE),
     remote_del |-> LocalPass(cal_local, remote_items,
                              {"Synced", "LocallyDeleted", "LocallyModified"}),
     local_changes |-> RemotePass(cal_local, remote_items, {"LocallyModified"}, TRUE)
                       \cup RemotePass(cal_local, remote_items, {"LocallyModified"}, FALSE),
     remote_changes |-> RemotePass(cal_local, remote_items,
                           {"Synced", "LocallyModified", "LocallyDeleted"}, FALSE),
     local_additions |-> LocalPass(cal_local, remote_items, {"NotSynced"}),
     remote_additions |-> (DOMAIN remote_items) \ (DOMAIN cal_local.items)]

\* Classify, but an item that is Synced with the version the remote holds
\* is a local change as well.
ClassifyPushesSynced(cal_local, remote_items) ==
    [local_del |-> RemotePass(cal_local, remote_items, {"LocallyDeleted"}, TRUE),
     remote_del |-> LocalPass(cal_local, remote_items,
                              {"Synced", "LocallyDeleted", "LocallyModified"}),
     local_changes |-> RemotePass(cal_local, remote_items,
                                  {"Synced", "LocallyModified"}, TRUE),
     remote_changes |-> RemotePass(cal_local, remote_items,
                           {"Synced", "LocallyModified", "LocallyDeleted"}, FALSE),
     local_additions |-> LocalPass(cal_local, remote_items, {"NotSynced"}),
     remote_additions |-> (DOMAIN remote_items) \ (DOMAIN cal_local.items)]

\* The classification of sync_calendar_pair, step 1: the remote pass over
\* the URLs the remote listed, then the local pass over the others.
Classify(cal_local, remote_items) ==
    [local_del |-> RemotePass(cal_local, remote_items, {"LocallyDeleted"}, TRUE),
     remote_del |-> LocalPass(cal_local, remote_items,
                              {"Synced", "LocallyDeleted", "LocallyModified"}),
     local_changes |-> RemotePass(cal_local, remote_items, {"LocallyModified"}, TRUE),
     remote_changes |-> RemotePass(cal_local, remote_items,
                           {"Synced", "LocallyModified", "LocallyDeleted"}, FALSE),
     local_additions |-> LocalPass(cal_local, remote_items, {"NotSynced"}),
     remote_additions |-> (DOMAIN remote_items) \ (DOMAIN cal_local.items)]

NoSets ==
    [local_del |-> {}, remote_del |-> {}, local_changes |-> {}, remote_changes |-> {},
     local_additions |-> {}, remote_additions |-> {}]

(***************************************************************************)
(* SyncProgress (src/src/provider/sync_progress.rs)                        *)
(***************************************************************************)
\* error, but an error is not counted.
error_uncounted(n) == n

\* SyncProgress::error
error(n) == n + 1
\* warn, but a warning does not count as an error.
warn_uncounted(n) == n

\* SyncProgress::warn
warn(n) == n + 1

\* info, but an information counts as an error.
info_counted(n) == n + 1

\* SyncProgress::info
info(n) == n

\* SyncProgress::is_success
is_success(n) == n = 0

\* enum SyncEvent.  What InProgress carries (calendar, items_done_already,
\* details) is text for the listener, which no code reads back.
NotStarted == [type |-> "NotStarted"]
Started == [type |-> "Started"]
InProgress == [type |-> "InProgress"]
\* Finished, but a sync is always reported as a success.
FinishedSuccessfully(success) == [type |-> "Finished", success |-> TRUE]

Finished(success) == [type |-> "Finished", success |-> success]

\* feedback_channel(): a watch channel that holds SyncEvent::default().
feedback_channel == NotStarted

\* SyncProgress::feedback, but the event is not sent.
feedback_unsent(channel, ev) == channel

\* SyncProgress::feedback: sender.send(event) replaces the value the watch
\* channel holds.
feedback(channel, ev) == ev

\* k messages of one level logged by a call whose error count is n.
RECURSIVE LogAll(_, _, _)
LogAll(n, k, level) ==
    IF k = 0 THEN n
    ELSE LogAll(CASE level = "error" -> error(n)
                  [] level = "warn" -> warn(n)
                  [] OTHER -> info(n),
                k - 1, level)

(***************************************************************************)
(* The state.                                                              *)
(***************************************************************************)
VARIABLES
    local,      \* Provider::local, a Cache: calendar URL -> CachedCalendar
    remote,     \* Provider::remote, the mocked server: calendar URL -> calendar
    pc,         \* where the current sync() call stands ("idle": none running)
    n_errors,   \* SyncProgress::n_errors of the current call
    todo,       \* the calendars the current loop of run_sync_inner has yet to visit
    handled,    \* handled_calendars of run_sync_inner
    loop,       \* which loop of run_sync_inner runs: 1 (remote calendars) or 2
    cur,        \* the calendar pair being reconciled ("": none)
    sets,       \* the URLs of the six sets that are not applied yet
    inflight,   \* the remote write whose result the engine has yet to receive
    result,     \* what the last completed sync() returned ("none": no call yet)
    faults,     \* how many remote operations have failed so far
    call,       \* what happened during the current call (see NewCall)
    lock,       \* who holds the Mutex of each calendar of each source
    start,      \* the two sources as they were before the first sync()
    client,     \* the Client of a CalDAV server and the RemoteCalendars it made
    mock,       \* a MockBehaviour and the calls made on it (see NewMock)
    ical,       \* the iCal text given to the codec and what the codec made of it
    folder,     \* the files of the folder a Cache is saved to
    user,       \* the calls the user of the local source made (see NoUser)
    event       \* the SyncEvent the feedback channel of the latest call holds

vars == <<local, remote, pc, n_errors, todo, handled, loop, cur, sets, inflight, result,
          faults, call, lock, start, client, mock, ical, folder, user, event>>

NoOp == [op |-> "none", url |-> "", ss |-> NotSynced]

\* No text was given to the iCal codec.
NoIcal == [stage |-> "none"]

\* The folder does not exist.
NoFolder == [exists |-> FALSE]

\* No Client was made.
NoClient == [stage |-> "none"]

\* No fault injector is under study.
NoMock == [stage |-> "none"]

\* The Arc<Mutex<calendar>> handles of the two sources.
Mutexes == {"local", "remote"} \X CalendarIds

\* No Mutex is held.
Unlocked == [m \in Mutexes |-> "free"]

\* lock_pair, but only the remote calendar is locked.
lock_remote_only(l, c) == [l EXCEPT ![<<"remote", c>>] = "engine"]

\* sync_calendar_pair: cal_remote.lock().unwrap(), then
\* cal_local.lock().unwrap(); the two guards live until the function
\* returns.
lock_pair(l, c) == [l EXCEPT ![<<"remote", c>>] = "engine", ![<<"local", c>>] = "engine"]

\* sync_calendar_pair returns: the two guards are dropped.
unlock_pair(l, c) == [l EXCEPT ![<<"remote", c>>] = "free", ![<<"local", c>>] = "free"]

\* Both calendars of a pair can be locked at once.
pair_is_free(l, c) == l[<<"remote", c>>] = "free" /\ l[<<"local", c>>] = "free"

\* The calls the user made on the local source, oldest first; of each call
\* its name, the calendar and the URL it was about, and what it returned.
NoUser == << >>

\* What a call has met so far: remote operations that failed, items the
\* engine refused or failed to handle locally, conflicts the remote won,
\* the remote write operations that took effect, by kind and URL, and what
\* the failed remote operations were about (item URLs, calendar URLs, or
\* "source" for get_calendars), whether Finished was posted, and the
\* calendars cals_remote of run_sync_inner held.
NewCall == [faults |-> 0, refused |-> 0, conflicts |-> 0, writes |-> {}, failed |-> {},
            finished |-> 0, enumerated |-> {}]

(***************************************************************************)
(* The initial states: what tests/scenarii.rs builds.  Every item is       *)
(* either synced on both sides at the last sync (name "A", version tag 1)  *)
(* or absent, then the user and the server each change it or not.          *)
(***************************************************************************)
Cases ==
    {[base |-> TRUE, lchg |-> l, rchg |-> r] :
        l \in {"none", "rename", "remove"}, r \in {"none", "edit", "remove"}}
    \cup {[base |-> FALSE, lchg |-> l, rchg |-> r] :
        l \in {"none", "create"}, r \in {"none", "create"}}

\* Where a calendar exists before the first sync.
Modes == {"both", "local", "remote", "none"}

\* The cases an item can be in, given where its calendar exists.
CaseAllowed(mode, case) ==
    CASE mode = "both" -> TRUE
      [] mode = "local" -> ~case.base /\ case.rchg = "none"
      [] mode = "remote" -> ~case.base /\ case.lchg = "none"
      [] OTHER -> ~case.base /\ case.lchg = "none" /\ case.rchg = "none"

\* The modes of the initial states: the first calendar exists on both sides.
ModeAllowed(c, mode) == c = "c1" => mode = "both"

\* The cases of the initial states: the first item of the first calendar is
\* in any case, the other items in the cases that put an item in each of
\* the six sets, in none, or nowhere.
UrlCases(u) ==
    IF u = "c1/a" THEN Cases
    ELSE {case \in Cases :
            \/ ~case.base /\ ~(case.lchg = "create" /\ case.rchg = "create")
            \/ case.base /\ case.rchg = "none" /\ case.lchg # "remove"
            \/ case.base /\ case.lchg = "none" /\ u = "c1/b"}

\* The attributes of the calendars (populate_test_provider creates the two
\* counterparts of a calendar with the same attributes).
CalName(c) == IF c = "c1" THEN "Calendar one" ELSE "Calendar two"
CalComps(c) == IF c = "c1" THEN {"TODO"} ELSE {"TODO", "EVENT"}
CalColor(c) == IF c = "c1" THEN "no color" ELSE "lime"

BaseItem(u) == NewTask(u, "A", FALSE, Synced(1))

\* The local item of a case, after the user's change (ChangeToApply with
\* is_remote = false).
RECURSIVE LocalItems(_, _, _)
LocalItems(cal, urls, sc) ==
    IF urls = {} THEN cal
    ELSE LET u == CHOOSE x \in urls : TRUE
             withBase == IF sc[u].base THEN local_add_item(cal, BaseItem(u)).cal ELSE cal
             changed ==
                CASE sc[u].lchg = "rename" ->
                        [withBase EXCEPT !.items[u] = set_name(withBase.items[u], "L")]
                  [] sc[u].lchg = "remove" -> mark_for_deletion(withBase, u).cal
                  [] sc[u].lchg = "create" ->
                        local_add_item(withBase, NewTask(u, "L", FALSE, NotSynced)).cal
                  [] OTHER -> withBase
         IN LocalItems(changed, urls \ {u}, sc)

\* The remote item of a case, after the server's change (ChangeToApply with
\* is_remote = true): an edit renames the task and completes it.
RECURSIVE RemoteItems(_, _, _)
RemoteItems(cal, urls, sc) ==
    IF urls = {} THEN cal
    ELSE LET u == CHOOSE x \in urls : TRUE
             withBase == IF sc[u].base THEN remote_add_item(cal, BaseItem(u), 1).cal ELSE cal
             changed ==
                CASE sc[u].rchg = "edit" ->
                        [withBase EXCEPT !.items[u] =
                            mock_remote_calendar_set_completion_status(
                                mock_remote_calendar_set_name(withBase.items[u], "R", 2),
                                TRUE, 2)]
                  [] sc[u].rchg = "remove" -> remote_delete_item(withBase, u).cal
                  [] sc[u].rchg = "create" ->
                        remote_add_item(withBase, NewTask(u, "R", TRUE, NotSynced), 2).cal
                  [] OTHER -> withBase
         IN RemoteItems(changed, urls \ {u}, sc)

EmptyCalendar(c) == NewCalendar(CalName(c), c, CalComps(c), CalColor(c))

InitialLocal(mode, sc) ==
    [c \in {x \in CalendarIds : mode[x] \in {"both", "local"}} |->
        LocalItems(EmptyCalendar(c), UrlsOf(c), sc)]

InitialRemote(mode, sc) ==
    [c \in {x \in CalendarIds : mode[x] \in {"both", "remote"}} |->
        RemoteItems(EmptyCalendar(c), UrlsOf(c), sc)]

Scenarios ==
    {s \in [mode : [CalendarIds -> Modes], sc : [ItemUrls -> Cases]] :
        /\ \A c \in CalendarIds : ModeAllowed(c, s.mode[c])
        /\ \A c \in CalendarIds : \A u \in UrlsOf(c) :
                s.sc[u] \in UrlCases(u) /\ CaseAllowed(s.mode[c], s.sc[u])}

Init ==
    \E s \in Scenarios :
        /\ local = InitialLocal(s.mode, s.sc)
        /\ remote = InitialRemote(s.mode, s.sc)
        /\ start = [local |-> InitialLocal(s.mode, s.sc),
                    remote |-> InitialRemote(s.mode, s.sc)]
        /\ pc = "idle"
        /\ n_errors = 0
        /\ todo = {}
        /\ handled = {}
        /\ loop = 1
        /\ cur = ""
        /\ sets = NoSets
        /\ inflight = NoOp
        /\ result = "none"
        /\ faults = 0
        /\ call = NewCall
        /\ lock = Unlocked
        /\ client = NoClient /\ mock = NoMock
        /\ ical = NoIcal
        /\ folder = NoFolder
        /\ user = NoUser
        /\ event = feedback_channel

(***************************************************************************)
(* Helpers of the actions.                                                 *)
(***************************************************************************)
\* SyncStatus::random_synced(): a version tag the item's URL never had.
\* Version tags are only ever compared for one and the same URL, so a tag
\* above the ones either calendar holds for the URL stands for a random one.
FreshTag(cal_local, cal_remote, u) ==
    1 + SetMax({cal.items[u].sync_status.tag :
                  cal \in {x \in {cal_local, cal_remote} : u \in DOMAIN x.items}})

\* get_or_insert_counterpart_calendar, but the counterpart is created
\* without the colour of the needle.
get_or_insert_counterpart_calendar_colourless(haystack, cal_url, needle) ==
    IF has_calendar(haystack, cal_url) THEN [ok |-> TRUE, source |-> haystack]
    ELSE create_calendar(haystack, cal_url, needle.name, needle.supported_components,
                         "no color")

\* get_or_insert_counterpart_calendar, once the fault injector let
\* create_calendar through: the calendar found, or the one created with the
\* name, the supported components and the colour of the needle.
get_or_insert_counterpart_calendar(haystack, cal_url, needle) ==
    IF has_calendar(haystack, cal_url) THEN [ok |-> TRUE, source |-> haystack]
    ELSE create_calendar(haystack, cal_url, needle.name, needle.supported_components,
                         needle.color)

\* The apply steps run in this order; a step starts when the sets of the
\* steps before it are empty.
\* StepOrder, but the local additions are pushed first.
StepOrderPushesFirst ==
    <<"local_additions", "local_del", "remote_del", "remote_additions",
      "remote_changes", "local_changes">>

\* The order in which sync_calendar_pair, step 2, goes through the six sets.
StepOrder ==
    <<"local_del", "remote_del", "remote_additions", "remote_changes",
      "local_additions", "local_changes">>

CurrentStep ==
    IF \A i \in 1..Len(StepOrder) : sets[StepOrder[i]] = {} THEN "done"
    ELSE StepOrder[CHOOSE i \in 1..Len(StepOrder) :
                      /\ sets[StepOrder[i]] # {}
                      /\ \A j \in 1..(i - 1) : sets[StepOrder[j]] = {}]

\* AfterFailure, but the failure ends the reconciliation of the calendar.
AbortAfterFailure(s, step, urls) == NoSets

\* What is left to apply after the remote operation on some URLs of a step
\* failed: the Err arm logs the failure and the loop goes on with the next
\* URL (or the next batch).
AfterFailure(s, step, urls) == [s EXCEPT ![step] = @ \ urls]

\* A remote operation fails (the fault injector, or the network).
Fault ==
    /\ faults < MaxFaults
    /\ faults' = faults + 1

\* The items of a batch, added to or replacing those of the local calendar
\* (fetch_batch_and_apply); refused counts the ones the calendar rejects.
RECURSIVE ApplyBatch(_, _, _)
ApplyBatch(acc, items, isAddition) ==
    IF items = {} THEN acc
    ELSE LET item == CHOOSE x \in items : TRUE
             r == IF isAddition THEN local_add_item(acc.cal, item)
                  ELSE local_update_item(acc.cal, item)
         IN ApplyBatch([cal |-> r.cal,
                        refused |-> acc.refused + (IF r.ok THEN 0 ELSE 1)],
                       items \ {item}, isAddition)

(***************************************************************************)
(* Provider::sync and Provider::run_sync_inner                             *)
(***************************************************************************)
\* Provider::sync_with_feedback: a new SyncProgress, then run_sync, whose
\* run_sync_inner starts by posting Started.
SyncStart ==
    /\ pc = "idle"
    /\ pc' = "get_calendars"
    /\ event' = feedback(feedback_channel, Started)
    /\ UNCHANGED <<local, remote, n_errors, todo, handled, loop, cur, sets, inflight,
                   result, faults, call, lock, start, client, mock, ical, folder, user>>

\* self.remote.get_calendars() fails: run_sync_inner returns the error and
\* run_sync logs it.
GetCalendarsFail ==
    /\ pc = "get_calendars"
    /\ Fault
    /\ n_errors' = error(n_errors)
    /\ call' = [call EXCEPT !.faults = @ + 1, !.failed = @ \cup {"source"},
                             !.finished = @ + 1]
    /\ event' = feedback(event, Finished(is_success(n_errors')))
    /\ pc' = "finish"
    /\ UNCHANGED <<local, remote, todo, handled, loop, cur, sets, inflight, result, lock,
                   start, client, mock, ical, folder, user>>

\* self.remote.get_calendars() succeeds.
GetCalendarsOk ==
    /\ pc = "get_calendars"
    /\ todo' = DOMAIN remote
    /\ call' = [call EXCEPT !.enumerated = DOMAIN remote]
    /\ pc' = "loop"
    /\ UNCHANGED <<local, remote, n_errors, handled, loop, cur, sets, inflight, result,
                   faults, lock, start, client, mock, ical, folder, user, event>>

\* The first loop takes the next remote calendar and gets or creates its
\* local counterpart (a local Cache has no fault injector).
NextRemoteCalendar ==
    /\ pc = "loop" /\ loop = 1
    /\ \E c \in todo :
        LET r == get_or_insert_counterpart_calendar(local, c, remote[c])
        IN /\ todo' = todo \ {c}
           /\ local' = r.source
           /\ IF r.ok
              THEN /\ pair_is_free(lock, c)
                   /\ lock' = lock_pair(lock, c)
                   /\ cur' = c
                   /\ pc' = "classify"
                   /\ event' = feedback(event, InProgress)
                   /\ UNCHANGED <<n_errors, call>>
              ELSE /\ n_errors' = warn(n_errors)
                   /\ call' = [call EXCEPT !.refused = @ + 1]
                   /\ UNCHANGED <<cur, pc, event, lock>>
    /\ UNCHANGED <<remote, handled, loop, sets, inflight, result, faults,
                   start, client, mock, ical, folder, user>>

\* The first loop is over: self.local.get_calendars(), which cannot fail.
GetLocalCalendars ==
    /\ pc = "loop" /\ loop = 1 /\ todo = {}
    /\ todo' = DOMAIN local
    /\ loop' = 2
    /\ UNCHANGED <<local, remote, pc, n_errors, handled, cur, sets, inflight, result,
                   faults, call, lock, start, client, mock, ical, folder, user, event>>

\* The second loop takes a local calendar, skipping those the first loop
\* handled, and gets or creates its remote counterpart.
NextLocalCalendar ==
    /\ pc = "loop" /\ loop = 2
    /\ \E c \in todo \ handled :
        LET r == get_or_insert_counterpart_calendar(remote, c, local[c])
        IN /\ todo' = todo \ {c}
           /\ remote' = r.source
           /\ IF r.ok
              THEN /\ pair_is_free(lock, c)
                   /\ lock' = lock_pair(lock, c)
                   /\ cur' = c
                   /\ pc' = "classify"
                   /\ event' = feedback(event, InProgress)
                   /\ UNCHANGED <<n_errors, call>>
              ELSE /\ n_errors' = warn(n_errors)
                   /\ call' = [call EXCEPT !.refused = @ + 1]
                   /\ UNCHANGED <<cur, pc, event, lock>>
    /\ UNCHANGED <<local, handled, loop, sets, inflight, result, faults, start, client, mock, ical, folder, user>>

\* create_calendar on the remote source fails: the calendar is skipped.
CreateRemoteCalendarFail ==
    /\ pc = "loop" /\ loop = 2
    /\ Fault
    /\ \E c \in todo \ handled :
        /\ ~has_calendar(remote, c)
        /\ todo' = todo \ {c}
        /\ call' = [call EXCEPT !.faults = @ + 1, !.failed = @ \cup {c}]
    /\ n_errors' = warn(n_errors)
    /\ UNCHANGED <<local, remote, pc, handled, loop, cur, sets, inflight, result, lock,
                   start, client, mock, ical, folder, user, event>>

\* The second loop is over: run_sync posts Finished and returns.
SyncEnd ==
    /\ pc = "loop" /\ loop = 2 /\ todo \subseteq handled
    /\ pc' = "finish"
    /\ event' = feedback(event, Finished(is_success(n_errors)))
    /\ call' = [call EXCEPT !.finished = @ + 1]
    /\ UNCHANGED <<local, remote, n_errors, todo, handled, loop, cur, sets, inflight,
                   result, faults, lock, start, client, mock, ical, folder, user>>

\* run_sync returns progress.is_success(); the SyncProgress and the locals
\* of the call are dropped, the sender of the feedback channel with them:
\* the receiver keeps the last value sent.
SyncReturn ==
    /\ pc = "finish"
    /\ result' = IF is_success(n_errors) THEN "true" ELSE "false"
    /\ pc' = "idle"
    /\ n_errors' = 0
    /\ call' = NewCall
    /\ todo' = {}
    /\ handled' = {}
    /\ loop' = 1
    /\ UNCHANGED <<local, remote, cur, sets, inflight, faults, lock,
                   start, client, mock, ical, folder, user, event>>

(***************************************************************************)
(* Provider::sync_calendar_pair                                            *)
(***************************************************************************)
\* How the loops of run_sync_inner go on after a pair: the first loop
\* records the calendar as handled when the pair returned Ok.
PairReturns(ok) ==
    /\ pc' = "loop"
    /\ handled' = IF ok /\ loop = 1 THEN handled \cup {cur} ELSE handled
    /\ lock' = unlock_pair(lock, cur)
    /\ cur' = ""

\* cal_remote.get_item_version_tags() fails: sync_calendar_pair returns
\* the error and run_sync_inner logs it.
ClassifyFail ==
    /\ pc = "classify"
    /\ Fault
    /\ n_errors' = warn(n_errors)
    /\ call' = [call EXCEPT !.faults = @ + 1, !.failed = @ \cup {cur}]
    /\ PairReturns(FALSE)
    /\ UNCHANGED <<local, remote, todo, loop, sets, inflight, result, start, client, mock, ical, folder, user,
                   event>>

\* Step 1 of sync_calendar_pair: find the differences.  Every URL reuse is
\* logged as an error, every conflict as an info.
ClassifyOk ==
    /\ pc = "classify"
    /\ LET remote_items == get_item_version_tags(remote[cur])
           reused == Cardinality(UrlReuse(local[cur], remote_items))
           conflicts == Cardinality(Conflicts(local[cur], remote_items))
       IN /\ sets' = Classify(local[cur], remote_items)
          /\ n_errors' = LogAll(LogAll(n_errors, reused, "error"), conflicts, "info")
          /\ call' = [call EXCEPT !.refused = @ + reused, !.conflicts = @ + conflicts]
    /\ pc' = "apply"
    /\ event' = feedback(event, InProgress)
    /\ UNCHANGED <<local, remote, todo, handled, loop, cur, inflight, result, faults, lock,
                   start, client, mock, ical, folder, user>>

\* PushLocalDeletionFail, but the tombstone is removed all the same.
PushLocalDeletionFailDropsTombstone ==
    /\ pc = "apply" /\ inflight = NoOp /\ CurrentStep = "local_del"
    /\ Fault
    /\ \E u \in sets.local_del :
        /\ sets' = AfterFailure(sets, "local_del", {u})
        /\ call' = [call EXCEPT !.faults = @ + 1, !.failed = @ \cup {u}]
        /\ local' = [local EXCEPT ![cur] = immediately_delete_item(@, u).cal]
    /\ n_errors' = warn(n_errors)
    /\ event' = feedback(event, InProgress)
    /\ UNCHANGED <<remote, pc, todo, handled, loop, cur, inflight, result, lock,
                   start, client, mock, ical, folder, user>>

\* cal_remote.delete_item fails: the tombstone stays.
PushLocalDeletionFail ==
    /\ pc = "apply" /\ inflight = NoOp /\ CurrentStep = "local_del"
    /\ Fault
    /\ \E u \in sets.local_del :
        /\ sets' = AfterFailure(sets, "local_del", {u})
        /\ call' = [call EXCEPT !.faults = @ + 1, !.failed = @ \cup {u}]
    /\ n_errors' = warn(n_errors)
    /\ event' = feedback(event, InProgress)
    /\ UNCHANGED <<local, remote, pc, todo, handled, loop, cur, inflight, result, lock,
                   start, client, mock, ical, folder, user>>

\* cal_remote.delete_item reaches the server.
PushLocalDeletion ==
    /\ pc = "apply" /\ inflight = NoOp /\ CurrentStep = "local_del"
    /\ \E u \in sets.local_del :
        LET r == remote_delete_item(remote[cur], u)
        IN /\ remote' = [remote EXCEPT ![cur] = r.cal]
           /\ IF r.ok
              THEN /\ inflight' = [op |-> "delete_item", url |-> u, ss |-> NotSynced]
                   /\ call' = [call EXCEPT !.writes = @ \cup {<<"delete_item", u>>}]
                   /\ UNCHANGED <<sets, n_errors>>
              ELSE /\ sets' = [sets EXCEPT !.local_del = @ \ {u}]
                   /\ n_errors' = warn(n_errors)
                   /\ call' = [call EXCEPT !.refused = @ + 1]
                   /\ UNCHANGED inflight
    /\ event' = feedback(event, InProgress)
    /\ UNCHANGED <<local, pc, todo, handled, loop, cur, result, faults, lock,
                   start, client, mock, ical, folder, user>>

\* delete_item returned Ok: the local tombstone is removed.
LocalDeletionPushed ==
    /\ pc = "apply" /\ inflight.op = "delete_item"
    /\ LET r == immediately_delete_item(local[cur], inflight.url)
       IN /\ local' = [local EXCEPT ![cur] = r.cal]
          /\ n_errors' = IF r.ok THEN n_errors ELSE error(n_errors)
          /\ call' = IF r.ok THEN call ELSE [call EXCEPT !.refused = @ + 1]
    /\ sets' = [sets EXCEPT !.local_del = @ \ {inflight.url}]
    /\ inflight' = NoOp
    /\ UNCHANGED <<remote, pc, todo, handled, loop, cur, result, faults, lock,
                   start, client, mock, ical, folder, user,
                   event>>

\* A deletion of the remote is applied to the local calendar.
ApplyRemoteDeletion ==
    /\ pc = "apply" /\ CurrentStep = "remote_del"
    /\ \E u \in sets.remote_del :
        LET r == immediately_delete_item(local[cur], u)
        IN /\ local' = [local EXCEPT ![cur] = r.cal]
           /\ n_errors' = IF r.ok THEN n_errors ELSE warn(n_errors)
           /\ call' = IF r.ok THEN call ELSE [call EXCEPT !.refused = @ + 1]
           /\ sets' = [sets EXCEPT !.remote_del = @ \ {u}]
    /\ event' = feedback(event, InProgress)
    /\ UNCHANGED <<remote, pc, todo, handled, loop, cur, inflight, result, faults, lock,
                   start, client, mock, ical, folder, user>>

\* The batches apply_remote_additions and apply_remote_changes cut: a
\* HashSet is drained in any order, DOWNLOAD_BATCH_SIZE URLs at a time.
Batches(urls) ==
    {b \in SUBSET urls :
        Cardinality(b) = IF Cardinality(urls) < DOWNLOAD_BATCH_SIZE
                         THEN Cardinality(urls) ELSE DOWNLOAD_BATCH_SIZE}

\* cal_remote.get_items_by_url fails: the batch is skipped.
FetchBatchFail ==
    /\ pc = "apply" /\ CurrentStep \in {"remote_additions", "remote_changes"}
    /\ Fault
    /\ \E b \in Batches(sets[CurrentStep]) :
        /\ sets' = AfterFailure(sets, CurrentStep, b)
        /\ call' = [call EXCEPT !.faults = @ + 1, !.failed = @ \cup b]
    /\ n_errors' = warn(n_errors)
    /\ UNCHANGED <<local, remote, pc, todo, handled, loop, cur, inflight, result, lock,
                   start, client, mock, ical, folder, user, event>>

\* fetch_batch_and_apply: the items of a batch are fetched and added to the
\* local calendar (remote additions) or replace the local ones (remote changes).
FetchBatchAndApply ==
    /\ pc = "apply" /\ CurrentStep \in {"remote_additions", "remote_changes"}
    /\ \E b \in Batches(sets[CurrentStep]) :
        LET r == ApplyBatch([cal |-> local[cur], refused |-> 0],
                            get_items_by_url(remote[cur], b),
                            CurrentStep = "remote_additions")
        IN /\ local' = [local EXCEPT ![cur] = r.cal]
           /\ n_errors' = LogAll(n_errors, r.refused, "error")
           /\ call' = [call EXCEPT !.refused = @ + r.refused]
           /\ sets' = [sets EXCEPT ![CurrentStep] = @ \ b]
    /\ event' = feedback(event, InProgress)
    /\ UNCHANGED <<remote, pc, todo, handled, loop, cur, inflight, result, faults, lock,
                   start, client, mock, ical, folder, user>>

\* cal_remote.add_item or cal_remote.update_item fails: the local item
\* keeps its status.
PushLocalItemFail ==
    /\ pc = "apply" /\ inflight = NoOp
    /\ CurrentStep \in {"local_additions", "local_changes"}
    /\ Fault
    /\ \E u \in sets[CurrentStep] :
        /\ u \in DOMAIN local[cur].items
        /\ sets' = AfterFailure(sets, CurrentStep, {u})
        /\ call' = [call EXCEPT !.faults = @ + 1, !.failed = @ \cup {u}]
    /\ n_errors' = error(n_errors)
    /\ event' = feedback(event, InProgress)
    /\ UNCHANGED <<local, remote, pc, todo, handled, loop, cur, inflight, result, lock,
                   start, client, mock, ical, folder, user>>

\* A local addition is pushed with cal_remote.add_item, a local change with
\* cal_remote.update_item: the call reaches the server, which stores the
\* item under a new version tag.
PushLocalItem ==
    /\ pc = "apply" /\ inflight = NoOp
    /\ CurrentStep \in {"local_additions", "local_changes"}
    /\ \E u \in sets[CurrentStep] :
        IF u \notin DOMAIN local[cur].items
        THEN /\ sets' = [sets EXCEPT ![CurrentStep] = @ \ {u}]
             /\ n_errors' = error(n_errors)
             /\ call' = [call EXCEPT !.refused = @ + 1]
             /\ UNCHANGED <<remote, inflight>>
        ELSE LET op == IF CurrentStep = "local_additions" THEN "add_item" ELSE "update_item"
                 r == IF op = "add_item"
                      THEN remote_add_item(remote[cur], local[cur].items[u],
                                           FreshTag(local[cur], remote[cur], u))
                      ELSE remote_update_item(remote[cur], local[cur].items[u],
                                              FreshTag(local[cur], remote[cur], u))
             IN /\ remote' = [remote EXCEPT ![cur] = r.cal]
                /\ IF r.ok
                   THEN /\ inflight' = [op |-> op, url |-> u, ss |-> r.ss]
                        /\ call' = [call EXCEPT !.writes = @ \cup {<<op, u>>}]
                        /\ UNCHANGED <<sets, n_errors>>
                   ELSE /\ sets' = [sets EXCEPT ![CurrentStep] = @ \ {u}]
                        /\ n_errors' = error(n_errors)
                        /\ call' = [call EXCEPT !.refused = @ + 1]
                        /\ UNCHANGED inflight
    /\ event' = feedback(event, InProgress)
    /\ UNCHANGED <<local, pc, todo, handled, loop, cur, result, faults, lock,
                   start, client, mock, ical, folder, user>>

\* add_item or update_item returned Ok(new_ss): item.set_sync_status(new_ss).
LocalItemPushed ==
    /\ pc = "apply" /\ inflight.op \in {"add_item", "update_item"}
    /\ local' = [local EXCEPT ![cur].items[inflight.url] = set_sync_status(@, inflight.ss)]
    /\ sets' = [sets EXCEPT ![CurrentStep] = @ \ {inflight.url}]
    /\ inflight' = NoOp
    /\ UNCHANGED <<remote, pc, n_errors, todo, handled, loop, cur, result, faults, call,
                   lock, start, client, mock, ical, folder, user, event>>

\* sync_calendar_pair returns Ok(()).
PairDone ==
    /\ pc = "apply" /\ CurrentStep = "done"
    /\ PairReturns(TRUE)
    /\ UNCHANGED <<local, remote, n_errors, todo, loop, sets, inflight, result,
                   faults, call, start, client, mock, ical, folder, user, event>>

Next ==
    \/ SyncStart
    \/ GetCalendarsFail
    \/ GetCalendarsOk
    \/ NextRemoteCalendar
    \/ GetLocalCalendars
    \/ NextLocalCalendar
    \/ CreateRemoteCalendarFail
    \/ SyncEnd
    \/ SyncReturn
    \/ ClassifyFail
    \/ ClassifyOk
    \/ PushLocalDeletionFail
    \/ PushLocalDeletion
    \/ LocalDeletionPushed
    \/ ApplyRemoteDeletion
    \/ FetchBatchFail
    \/ FetchBatchAndApply
    \/ PushLocalItemFail
    \/ PushLocalItem
    \/ LocalItemPushed
    \/ PairDone

Spec == Init /\ [][Next]_vars

(***************************************************************************)
(* A sync() in which no operation fails, as a function of the two sources: *)
(* the same operations, applied in the order of sync_calendar_pair.        *)
(***************************************************************************)
\* One URL of one of the six sets, applied to a pair [l, r] of calendars.
ApplyOne(pair, u, step) ==
    CASE step = "local_del" ->
            [l |-> immediately_delete_item(pair.l, u).cal,
             r |-> remote_delete_item(pair.r, u).cal]
      [] step = "remote_del" ->
            [pair EXCEPT !.l = immediately_delete_item(pair.l, u).cal]
      [] step \in {"remote_additions", "remote_changes"} ->
            [pair EXCEPT !.l = ApplyBatch([cal |-> pair.l, refused |-> 0],
                                          get_items_by_url(pair.r, {u}),
                                          step = "remote_additions").cal]
      [] OTHER ->
            LET item == pair.l.items[u]
                tag == FreshTag(pair.l, pair.r, u)
                res == IF step = "local_additions" THEN remote_add_item(pair.r, item, tag)
                       ELSE remote_update_item(pair.r, item, tag)
            IN [l |-> [pair.l EXCEPT !.items[u] = set_sync_status(@, res.ss)],
                r |-> res.cal]

RECURSIVE ApplyAll(_, _, _)
ApplyAll(pair, urls, step) ==
    IF urls = {} THEN pair
    ELSE LET u == CHOOSE x \in urls : TRUE
         IN ApplyAll(ApplyOne(pair, u, step), urls \ {u}, step)

RECURSIVE ApplySteps(_, _, _)
ApplySteps(pair, diff, i) ==
    IF i > Len(StepOrder) THEN pair
    ELSE ApplySteps(ApplyAll(pair, diff[StepOrder[i]], StepOrder[i]), diff, i + 1)

\* sync_calendar_pair without a failure
Reconcile(pair) ==
    ApplySteps(pair, Classify(pair.l, get_item_version_tags(pair.r)), 1)

\* run_sync_inner without a failure: every calendar of either source gets
\* its counterpart and the pair is reconciled.
FaultFreeSync(s) ==
    LET cals == (DOMAIN s.local) \cup (DOMAIN s.remote)
        Pair(c) ==
            IF c \in DOMAIN s.remote
            THEN [l |-> get_or_insert_counterpart_calendar(s.local, c, s.remote[c]).source[c],
                  r |-> s.remote[c]]
            ELSE [l |-> s.local[c],
                  r |-> get_or_insert_counterpart_calendar(s.remote, c, s.local[c]).source[c]]
    IN [local |-> [c \in cals |-> Reconcile(Pair(c)).l],
        remote |-> [c \in cals |-> Reconcile(Pair(c)).r]]

\* What Cache::has_same_observable_content_as compares: the calendars, their
\* attributes, and of every item the URL, the name, the variant of the sync
\* status and the variant of the completion status.
Observable(source) ==
    [c \in DOMAIN source |->
        [name |-> source[c].name, url |-> source[c].url,
         supported_components |-> source[c].supported_components,
         color |-> source[c].color,
         items |-> [u \in DOMAIN source[c].items |->
                      [url |-> source[c].items[u].url,
                       name |-> source[c].items[u].name,
                       completed |-> source[c].items[u].completed,
                       sync_status |-> source[c].items[u].sync_status.kind]]]]

(***************************************************************************)
(* Cancellation: the future Provider::sync returns is dropped at one of    *)
(* its suspension points.  What the call did so far stays done; its        *)
(* SyncProgress, its locals and its lock guards are gone, and it returns   *)
(* nothing.                                                                *)
(***************************************************************************)
CancelSync ==
    /\ pc # "idle"
    /\ pc' = "idle"
    /\ n_errors' = 0
    /\ call' = NewCall
    /\ todo' = {}
    /\ handled' = {}
    /\ loop' = 1
    /\ cur' = ""
    /\ sets' = NoSets
    /\ inflight' = NoOp
    /\ event' = feedback_channel
    /\ lock' = Unlocked
    /\ UNCHANGED <<local, remote, result, faults, start, client, mock, ical, folder, user>>

\* The calls in which no operation fails, any of which may be abandoned.
NextCancel ==
    \/ SyncStart
    \/ GetCalendarsOk
    \/ NextRemoteCalendar
    \/ GetLocalCalendars
    \/ NextLocalCalendar
    \/ SyncEnd
    \/ SyncReturn
    \/ ClassifyOk
    \/ PushLocalDeletion
    \/ LocalDeletionPushed
    \/ ApplyRemoteDeletion
    \/ FetchBatchAndApply
    \/ PushLocalItem
    \/ LocalItemPushed
    \/ PairDone
    \/ CancelSync

SpecCancel == Init /\ [][NextCancel]_vars

\* Every call goes on, and calls follow one another for ever.
SpecFair == Spec /\ WF_vars(Next)

(***************************************************************************)
(* Vocabulary of the properties.                                           *)
(***************************************************************************)
\* A sync() call has just returned b ("true" or "false").
Returned(b) == pc = "idle" /\ result = b

\* The (calendar, URL) pairs of the items either source held at the start.
StartItems(side) ==
    {<<c, u>> \in CalendarIds \X ItemUrls : c \in DOMAIN side /\ u \in DOMAIN side[c].items}

\* The items that were in URL reuse at the start: NotSynced locally while
\* the remote calendar holds the same URL.
StartUrlReuse ==
    {p \in StartItems(start.local) \cap StartItems(start.remote) :
        start.local[p[1]].items[p[2]].sync_status.kind = "NotSynced"}

\* The items in conflict at the start: modified locally since version v
\* while the remote holds another version.
StartConflicts ==
    {p \in StartItems(start.local) \cap StartItems(start.remote) :
        /\ start.local[p[1]].items[p[2]].sync_status.kind = "LocallyModified"
        /\ start.local[p[1]].items[p[2]].sync_status.tag
              # start.remote[p[1]].items[p[2]].sync_status.tag}

\* The two sources hold the same calendars and the same items, and every
\* local item is Synced with the version tag of its remote counterpart.
Converged ==
    /\ DOMAIN local = DOMAIN remote
    /\ \A c \in DOMAIN local :
        /\ DOMAIN local[c].items = DOMAIN remote[c].items
        /\ \A u \in DOMAIN local[c].items :
            /\ local[c].items[u].name = remote[c].items[u].name
            /\ local[c].items[u].completed = remote[c].items[u].completed
            /\ local[c].items[u].sync_status.kind = "Synced"
            /\ local[c].items[u].sync_status = remote[c].items[u].sync_status

(***************************************************************************)
(* The properties.                                                         *)
(***************************************************************************)
\* C1 (convergence): when a sync() call has returned true, the local and
\* the remote source hold the same calendars, every calendar holds the same
\* item URLs on both sides, the two copies of every item have the same name
\* and completion status, and every local item is Synced(v) with v the
\* version tag the remote holds for it.
C1_Convergence == Returned("true") => Converged

\* A sync() returned true after changing both sources, and items are left.
C1_Witness ==
    /\ Returned("true")
    /\ local # start.local
    /\ remote # start.remote
    /\ \E c \in DOMAIN local : DOMAIN local[c].items # {}

\* C2 (remote wins): an item that was LocallyModified(v) before the sync
\* while the remote held the same URL under another version tag is never
\* pushed (the remote copy stays what it was), and once sync() has returned
\* true the local copy is the remote one as it was before the sync: its
\* name, its completion status, and Synced with the remote version tag.
C2_RemoteWins ==
    \A p \in StartConflicts :
        /\ p[1] \in DOMAIN remote
        /\ p[2] \in DOMAIN remote[p[1]].items
        /\ remote[p[1]].items[p[2]] = start.remote[p[1]].items[p[2]]
        /\ Returned("true") =>
              /\ p[2] \in DOMAIN local[p[1]].items
              /\ local[p[1]].items[p[2]] = start.remote[p[1]].items[p[2]]

\* A sync() returned true from a start in which an item was in conflict.
C2_Witness ==
    /\ Returned("true")
    /\ StartConflicts # {}
    /\ \E p \in StartConflicts :
          local[p[1]].items[p[2]].name # start.local[p[1]].items[p[2]].name

\* C3 (idempotence): once a sync() has returned true, the steps of the next
\* sync() change neither source: items, names, completion statuses and sync
\* statuses stay exactly what the first sync left.
C3_Idempotence ==
    [][result = "true" => (local' = local /\ remote' = remote)]_vars

\* A second sync() is about to return, after a first one that returned
\* true and had changed the local source.
C3_Witness ==
    /\ result = "true"
    /\ pc = "finish"
    /\ local # start.local
    /\ \E c \in DOMAIN local : DOMAIN local[c].items # {}

\* C4 (resumability): when a sync() call returns true, whatever operations
\* failed in the calls before it, the two sources are observably what a
\* single sync() without a failure makes of the initial sources.
C4_Resumability ==
    Returned("true") =>
        /\ Observable(local) = Observable(FaultFreeSync(start).local)
        /\ Observable(remote) = Observable(FaultFreeSync(start).remote)

\* A sync() returned true after remote operations failed in earlier calls,
\* from a start the sync had to change.
C4_Witness ==
    /\ Returned("true")
    /\ faults = MaxFaults
    /\ Observable(start.local) # Observable(local)
    /\ Observable(start.remote) # Observable(remote)

C5_EventuallyTrue == <>(result = "true")

\* The same with the proviso.
C5_EventuallyTrueWithoutUrlReuse == (StartUrlReuse = {}) => <>(result = "true")

\* The items that were local additions at the start: NotSynced locally and
\* absent from the remote.
StartLocalAdditions ==
    {p \in StartItems(start.local) \ StartItems(start.remote) :
        start.local[p[1]].items[p[2]].sync_status.kind = "NotSynced"}

\* The two sources are observably what one sync() that is neither abandoned
\* nor meets a failure makes of the initial sources.
AsUninterrupted ==
    /\ Observable(local) = Observable(FaultFreeSync(start).local)
    /\ Observable(remote) = Observable(FaultFreeSync(start).remote)

\* C6 (cancellation safety): whatever calls were abandoned before, and
\* wherever they were abandoned, a sync() that runs to its end returns true
\* (it has logged no error) and leaves the sources as an uninterrupted sync
\* would have.  (Items in URL reuse at the start are set aside: no sync()
\* returns true then.)
C6_CancellationSafety ==
    (pc = "finish" /\ StartUrlReuse = {}) => (is_success(n_errors) /\ AsUninterrupted)

\* C6 where the engine has no local addition to push: abandoning a call
\* after update_item or delete_item took effect on the remote is recovered
\* by the next sync().
C6_CancellationSafetyWithoutAdditions ==
    (pc = "finish" /\ StartUrlReuse = {} /\ StartLocalAdditions = {}) =>
        (is_success(n_errors) /\ AsUninterrupted)

\* C7 (URL reuse): an item that was NotSynced locally while the remote held
\* the same URL is skipped by every sync(): the local item and the remote
\* item stay what they were, the classification of its calendar logs an
\* error, and no sync() returns true.
C7_UrlReuseSkipped ==
    \A p \in StartUrlReuse :
        /\ p[2] \in DOMAIN local[p[1]].items
        /\ local[p[1]].items[p[2]] = start.local[p[1]].items[p[2]]
        /\ p[2] \in DOMAIN remote[p[1]].items
        /\ remote[p[1]].items[p[2]] = start.remote[p[1]].items[p[2]]
        /\ (pc = "apply" /\ cur = p[1]) => ~is_success(n_errors)
        /\ result # "true"

\* A sync() in which no operation failed returned false because of an item
\* in URL reuse.
C7_Witness ==
    /\ StartUrlReuse # {}
    /\ Returned("false")
    /\ faults = 0

\* The attributes a calendar is created with.
Attributes(cal) == <<cal.url, cal.name, cal.supported_components, cal.color>>

\* The calendar c of the initial sources (of the one that held it).
StartCalendar(c) == IF c \in DOMAIN start.local THEN start.local[c] ELSE start.remote[c]

C9_ResultIsNoError ==
    [][pc = "finish" =>
          /\ result' = "true" <=> is_success(n_errors)
          /\ is_success(n_errors) <=> (call.faults = 0 /\ call.refused = 0)]_vars

\* A call in which a remote operation failed, and no item was in URL reuse,
\* returned false.
C9_Witness ==
    /\ Returned("false")
    /\ faults > 0
    /\ StartUrlReuse = {}

\* C10 (conflicts are not errors): a call that met conflicts the remote
\* won, and in which every operation succeeded, returns true.
C10_ConflictsAreNoErrors ==
    [][(pc = "finish" /\ call.conflicts > 0 /\ call.faults = 0 /\ call.refused = 0)
          => result' = "true"]_vars

\* The first sync() of a start with a conflict returned true.
C10_Witness ==
    /\ Returned("true")
    /\ faults = 0
    /\ \E c \in (DOMAIN start.local) \cap (DOMAIN start.remote) :
          Conflicts(start.local[c], get_item_version_tags(start.remote[c])) # {}

\* No item.
Absent == [absent |-> TRUE]

\* The item a source holds at a URL of a calendar (Absent when the calendar
\* or the item is missing).
ItemAt(source, c, u) ==
    IF c \in DOMAIN source /\ u \in DOMAIN source[c].items THEN source[c].items[u]
    ELSE Absent

\* The two sources agree on an item: absent from both, or the same name and
\* completion status on both with the local copy Synced under the remote's
\* version tag.
ItemConverged(c, u) ==
    LET l == ItemAt(local, c, u)
        r == ItemAt(remote, c, u)
    IN \/ l = Absent /\ r = Absent
       \/ /\ l # Absent /\ r # Absent
          /\ l.name = r.name /\ l.completed = r.completed
          /\ l.sync_status.kind = "Synced" /\ l.sync_status = r.sync_status

\* C11 (error isolation): at the end of a call in which get_calendars did
\* not fail, every calendar no failed operation was about exists in both
\* sources, and each of its items no failed operation was about (and that
\* is not in URL reuse) is reconciled, whatever failed for the other items
\* of the calendar and for the other calendars during the call.
C11_ErrorIsolation ==
    (pc = "finish" /\ "source" \notin call.failed) =>
        \A c \in ((DOMAIN local) \cup (DOMAIN remote)) \ call.failed :
            /\ c \in DOMAIN local
            /\ c \in DOMAIN remote
            /\ \A u \in UrlsOf(c) \ call.failed :
                  <<c, u>> \notin StartUrlReuse => ItemConverged(c, u)

\* A call ends in which the operation on an item of the first calendar
\* failed, another item of that calendar was reconciled by a change to one
\* of the sources, and the second calendar was created and filled.
C11_Witness ==
    /\ pc = "finish"
    /\ \E u \in UrlsOf("c1") \cap call.failed :
          \E u2 \in UrlsOf("c1") \ call.failed :
              /\ ItemConverged("c1", u2)
              /\ \/ ItemAt(local, "c1", u2) # ItemAt(start.local, "c1", u2)
                 \/ ItemAt(remote, "c1", u2) # ItemAt(start.remote, "c1", u2)
    /\ DOMAIN start.local # DOMAIN start.remote
    /\ "c2" \in (DOMAIN local) \cap (DOMAIN remote)
    /\ ItemAt(local, "c2", "c2/d") # Absent
    /\ ItemConverged("c2", "c2/d")

\* The items deleted locally since version v while the remote holds
\* another version, at the start.
StartDeleteConflicts ==
    {p \in StartItems(start.local) \cap StartItems(start.remote) :
        /\ start.local[p[1]].items[p[2]].sync_status.kind = "LocallyDeleted"
        /\ start.local[p[1]].items[p[2]].sync_status.tag
              # start.remote[p[1]].items[p[2]].sync_status.tag}

\* C12 (local delete against remote edit): an item that was
\* LocallyDeleted(v) before the sync while the remote held it under another
\* version tag is never deleted from the remote nor changed there, and once
\* sync() has returned true the local copy is the remote one: its name, its
\* completion status, Synced with the remote version tag, so no tombstone
\* is left.
C12_RemoteEditBeatsLocalDelete ==
    \A p \in StartDeleteConflicts :
        /\ ItemAt(remote, p[1], p[2]) = start.remote[p[1]].items[p[2]]
        /\ Returned("true") =>
              /\ ItemAt(local, p[1], p[2]) = start.remote[p[1]].items[p[2]]
              /\ ItemAt(local, p[1], p[2]).sync_status.kind = "Synced"

\* A sync() returned true from a start with such an item, whose tombstone
\* is gone and whose local name is the remote's.
C12_Witness ==
    /\ Returned("true")
    /\ \E p \in StartDeleteConflicts :
          /\ ItemAt(local, p[1], p[2]) # start.local[p[1]].items[p[2]]
          /\ ItemAt(local, p[1], p[2]).name = "R"

\* The items modified locally since their last sync that the remote no
\* longer holds, at the start.
StartEditsOfDeleted ==
    {p \in StartItems(start.local) \ StartItems(start.remote) :
        start.local[p[1]].items[p[2]].sync_status.kind = "LocallyModified"}

\* C14 (local edit against remote deletion): an item that was
\* LocallyModified(v) locally and absent from the remote is never created
\* again on the remote, and once sync() has returned true it is gone from
\* the local calendar too.
C14_RemoteDeletionBeatsLocalEdit ==
    \A p \in StartEditsOfDeleted :
        /\ ItemAt(remote, p[1], p[2]) = Absent
        /\ Returned("true") => ItemAt(local, p[1], p[2]) = Absent

\* A sync() returned true from a start with such an item, in a calendar
\* that both sources still hold.
C14_Witness ==
    /\ Returned("true")
    /\ \E p \in StartEditsOfDeleted :
          /\ p[1] \in (DOMAIN local) \cap (DOMAIN remote)
          /\ ItemAt(local, p[1], p[2]) = Absent

(***************************************************************************)
(* The user of the local source: between the state the tests build and the *)
(* first sync(), the application calls the operations of the local Cache   *)
(* and of its calendars.  Each call is recorded with what it returned.     *)
(***************************************************************************)
\* The item URLs the user's calls are about.
UserUrls == {"c1/a"}

\* What a call that takes no item was given.
NoItem == NewTask("", "", FALSE, NotSynced)

\* One call of the user: its name, the calendar and the URL it was about,
\* the item it was given, whether it returned Ok, and the status it returned.
UserCall(op, c, u, item, ok, ss) ==
    [op |-> op, cal |-> c, url |-> u, arg |-> item, ok |-> ok, ss |-> ss]

UserEnabled == pc = "idle" /\ result = "none" /\ Len(user) < MaxUserOps

\* What a user call leaves alone.
UserFrame ==
    UNCHANGED <<remote, pc, n_errors, todo, handled, loop, cur, sets, inflight, result,
                faults, call, lock, start, client, mock, ical, folder, event>>

\* CachedCalendar::add_item on a local calendar, with a new task (NotSynced)
\* or with one that carries a Synced status.
UserAddItem ==
    /\ UserEnabled
    /\ \E c \in DOMAIN local : \E u \in UserUrls \cap UrlsOf(c) :
       \E ss \in {NotSynced, Synced(3)} :
        LET item == NewTask(u, "N", FALSE, ss)
            r == local_add_item(local[c], item)
        IN /\ local' = [local EXCEPT ![c] = r.cal]
           /\ user' = Append(user, UserCall("add_item", c, u, item, r.ok, r.ss))
    /\ UserFrame

\* CachedCalendar::update_item on a local calendar.
UserUpdateItem ==
    /\ UserEnabled
    /\ \E c \in DOMAIN local : \E u \in UserUrls \cap UrlsOf(c) :
        LET item == NewTask(u, "U", TRUE, LocallyModified(1))
            r == local_update_item(local[c], item)
        IN /\ local' = [local EXCEPT ![c] = r.cal]
           /\ user' = Append(user, UserCall("update_item", c, u, item, r.ok, r.ss))
    /\ UserFrame

\* get_item_by_url_mut, then Task::set_name on the item it returned.
UserSetName ==
    /\ UserEnabled
    /\ \E c \in DOMAIN local : \E u \in UserUrls \cap DOMAIN local[c].items :
        /\ local' = [local EXCEPT ![c].items[u] = set_name(@, "E")]
        /\ user' = Append(user, UserCall("set_name", c, u, NoItem, TRUE,
                                         local'[c].items[u].sync_status))
    /\ UserFrame

\* get_item_by_url_mut, then Task::set_completion_status.
UserSetCompletionStatus ==
    /\ UserEnabled
    /\ \E c \in DOMAIN local : \E u \in UserUrls \cap DOMAIN local[c].items :
        /\ local' = [local EXCEPT ![c].items[u] = set_completion_status(@, TRUE)]
        /\ user' = Append(user, UserCall("set_completion_status", c, u, NoItem, TRUE,
                                         local'[c].items[u].sync_status))
    /\ UserFrame

\* CachedCalendar::mark_for_deletion on a local calendar.
UserMarkForDeletion ==
    /\ UserEnabled
    /\ \E c \in DOMAIN local : \E u \in UserUrls \cap UrlsOf(c) :
        LET r == mark_for_deletion(local[c], u)
        IN /\ local' = [local EXCEPT ![c] = r.cal]
           /\ user' = Append(user, UserCall("mark_for_deletion", c, u, NoItem, r.ok, r.ss))
    /\ UserFrame

\* Cache::create_calendar on the local source (which has no fault injector).
UserCreateCalendar ==
    /\ UserEnabled
    /\ \E c \in CalendarIds :
        LET r == create_calendar(local, c, CalName(c), CalComps(c), CalColor(c))
        IN /\ local' = r.source
           /\ user' = Append(user, UserCall("create_calendar", c, "", NoItem, r.ok,
                                            NotSynced))
    /\ UserFrame

\* The states the user starts from: one calendar, on both sides, with an
\* item both sides hold in sync and an item in any case.
InitUser ==
    /\ Init
    /\ DOMAIN start.local = {"c1"} /\ DOMAIN start.remote = {"c1"}
    /\ ItemAt(start.local, "c1", "c1/b") = BaseItem("c1/b")
    /\ ItemAt(start.remote, "c1", "c1/b") = BaseItem("c1/b")

\* The user's calls, then calls of sync() in which no remote operation fails.
NextUser ==
    \/ UserAddItem
    \/ UserUpdateItem
    \/ UserSetName
    \/ UserSetCompletionStatus
    \/ UserMarkForDeletion
    \/ UserCreateCalendar
    \/ SyncStart
    \/ GetCalendarsOk
    \/ NextRemoteCalendar
    \/ GetLocalCalendars
    \/ NextLocalCalendar
    \/ SyncEnd
    \/ SyncReturn
    \/ ClassifyOk
    \/ PushLocalDeletion
    \/ LocalDeletionPushed
    \/ ApplyRemoteDeletion
    \/ FetchBatchAndApply
    \/ PushLocalItem
    \/ LocalItemPushed
    \/ PairDone

SpecUser == InitUser /\ [][NextUser]_vars

\* The step is a call op of the user.
UserStep(op) == Len(user') = Len(user) + 1 /\ user'[Len(user')].op = op

\* The last call of the user, once a step made it.
LastCall == user'[Len(user')]

\* The last three calls of the user created a task at u, edited it and
\* marked it for deletion, and the remote did not hold u.
Transient(c, u) ==
    LET n == Len(user)
    IN /\ n >= 3
       /\ \A i \in {n - 2, n - 1, n} : user[i].cal = c /\ user[i].url = u /\ user[i].ok
       /\ user[n - 2].op = "add_item" /\ user[n - 2].arg.sync_status = NotSynced
       /\ user[n - 1].op \in {"set_name", "set_completion_status"}
       /\ user[n].op = "mark_for_deletion"
       /\ ItemAt(start.remote, c, u) = Absent

\* C13: a task the user created, edited and marked for deletion before any
\* sync is gone from the local calendar as soon as it is marked; the sync
\* that follows sends the remote nothing about its URL (the URL is in none
\* of the six sets and no remote write is about it), and the item is on
\* neither side afterwards.
C13_TransientItem ==
    \A c \in CalendarIds : \A u \in UserUrls :
        Transient(c, u) =>
            /\ ItemAt(local, c, u) = Absent
            /\ ItemAt(remote, c, u) = Absent
            /\ \A step \in DOMAIN sets : u \notin sets[step]
            /\ inflight.url # u
            /\ \A w \in call.writes : w[2] # u

\* A sync has run to its end after a transient task.
C13_Witness ==
    /\ \E c \in CalendarIds : \E u \in UserUrls : Transient(c, u)
    /\ pc = "finish"
    /\ handled # {}

\* C15: mark_for_deletion on a local calendar turns a Synced(v),
\* LocallyModified(v) or LocallyDeleted(v) item into LocallyDeleted(v) and
\* keeps everything else of it; it removes a NotSynced item; it returns an
\* error and changes nothing when the calendar holds no item at the URL.
C15_MarkForDeletion ==
    [][UserStep("mark_for_deletion") =>
        LET c == LastCall.cal
            u == LastCall.url
            before == ItemAt(local, c, u)
            after == ItemAt(local', c, u)
        IN /\ before = Absent => (~LastCall.ok /\ local' = local)
           /\ before # Absent =>
                /\ LastCall.ok
                /\ \A w \in (DOMAIN local[c].items) \ {u} :
                        ItemAt(local', c, w) = ItemAt(local, c, w)
                /\ IF before.sync_status.kind = "NotSynced"
                   THEN after = Absent
                   ELSE after = [before EXCEPT
                                    !.sync_status = LocallyDeleted(before.sync_status.tag)]
      ]_vars

\* A synced item was marked for deletion and is now a tombstone.
C15_Witness ==
    /\ user # NoUser
    /\ LET last == user[Len(user)]
       IN /\ last.op = "mark_for_deletion" /\ last.ok
          /\ ItemAt(start.local, last.cal, last.url) # Absent
          /\ ItemAt(local, last.cal, last.url) # Absent
          /\ ItemAt(local, last.cal, last.url).sync_status.kind = "LocallyDeleted"
          /\ ItemAt(local, last.cal, last.url).sync_status.tag > 0

\* C16: set_name and set_completion_status move Synced(v) to
\* LocallyModified(v) and leave any other status as it is; no call of the
\* user on an item that stays in the calendar changes the version tag of its
\* status, or makes the status Synced.
C16_UserEditStatus ==
    [][/\ (UserStep("set_name") \/ UserStep("set_completion_status")) =>
            LET before == ItemAt(local, LastCall.cal, LastCall.url).sync_status
                after == ItemAt(local', LastCall.cal, LastCall.url).sync_status
            IN after = IF before.kind = "Synced" THEN LocallyModified(before.tag)
                       ELSE before
       /\ (UserStep("set_name") \/ UserStep("set_completion_status")
                \/ UserStep("mark_for_deletion")) =>
            LET before == ItemAt(local, LastCall.cal, LastCall.url)
                after == ItemAt(local', LastCall.cal, LastCall.url)
            IN (before # Absent /\ after # Absent) =>
                    /\ after.sync_status.tag = before.sync_status.tag
                    /\ after.sync_status.kind # "Synced"
      ]_vars

\* The user edited an item that was Synced.
C16_Witness ==
    /\ Len(user) = 1
    /\ user[1].op \in {"set_name", "set_completion_status"}
    /\ ItemAt(start.local, user[1].cal, user[1].url) # Absent
    /\ ItemAt(start.local, user[1].cal, user[1].url).sync_status.kind = "Synced"
    /\ ItemAt(local, user[1].cal, user[1].url).sync_status.kind = "LocallyModified"

\* C17: add_item on a local calendar returns an error and leaves the
\* calendar as it is when it holds an item at the URL; otherwise it stores
\* the item it was given and returns the sync status of that item.
C17_AddItem ==
    [][UserStep("add_item") =>
        LET c == LastCall.cal
            u == LastCall.url
        IN IF ItemAt(local, c, u) # Absent
           THEN ~LastCall.ok /\ local' = local
           ELSE /\ LastCall.ok
                /\ ItemAt(local', c, u) = LastCall.arg
                /\ LastCall.ss = LastCall.arg.sync_status
                /\ \A w \in DOMAIN local[c].items : ItemAt(local', c, w) = ItemAt(local, c, w)
      ]_vars

\* add_item was refused because the calendar held the URL, and an add_item of
\* an item with a Synced status went through.
C17_Witness ==
    /\ Len(user) >= 2
    /\ \E i \in DOMAIN user : user[i].op = "add_item" /\ ~user[i].ok
    /\ \E i \in DOMAIN user :
            user[i].op = "add_item" /\ user[i].ok /\ user[i].ss.kind = "Synced"

\* C18: update_item on a local calendar returns an error and adds nothing
\* when it holds no item at the URL; otherwise the item it was given replaces
\* the one stored.  Either way the calendar holds the same URLs as before.
C18_UpdateItem ==
    [][UserStep("update_item") =>
        LET c == LastCall.cal
            u == LastCall.url
        IN /\ IF ItemAt(local, c, u) = Absent
              THEN ~LastCall.ok /\ local' = local
              ELSE LastCall.ok /\ ItemAt(local', c, u) = LastCall.arg
           /\ get_item_urls(local'[c]) = get_item_urls(local[c])
      ]_vars

\* update_item was refused for a missing URL, and an update_item replaced an
\* item.
C18_Witness ==
    /\ \E i \in DOMAIN user : user[i].op = "update_item" /\ ~user[i].ok
    /\ \E i \in DOMAIN user : user[i].op = "update_item" /\ user[i].ok

\* C19: create_calendar returns an error when the source holds a calendar
\* with that URL.
C19_CreateCalendarFails ==
    [][UserStep("create_calendar") =>
            (has_calendar(local, LastCall.cal) => ~LastCall.ok)]_vars

\* create_calendar was called for a calendar the source held.
C19_Witness ==
    /\ user # NoUser
    /\ user[Len(user)].op = "create_calendar"
    /\ user[Len(user)].cal \in DOMAIN start.local
    /\ ~user[Len(user)].ok

\* How far a SyncEvent is in the lifecycle of a call.
Rank(ev) ==
    CASE ev.type = "NotStarted" -> 0
      [] ev.type = "Started" -> 1
      [] ev.type = "InProgress" -> 2
      [] ev.type = "Finished" -> 3

\* C20: during one call the events of the feedback channel (which is
\* created holding NotStarted) go through Started, any number
\* of InProgress, then Finished: the value never goes back, InProgress only
\* follows Started or InProgress, nothing is posted once Finished is, and a
\* call that returns has posted Finished exactly once.
C20_ProgressLifecycle ==
    [][/\ pc # "idle" => Rank(event') >= Rank(event)
       /\ (pc = "idle" /\ pc' # "idle") => event' = Started
       /\ event'.type = "InProgress" => event.type \in {"Started", "InProgress"}
       /\ (pc # "idle" /\ event.type = "Finished") =>
              (event' = event /\ (pc' = "idle" \/ call'.finished = call.finished))
       /\ call'.finished <= 1
       /\ (pc # "idle" /\ pc' = "idle") =>
              (event = Finished(result' = "true") /\ call.finished = 1)]_vars

\* A call that posted InProgress for a calendar has posted Finished.
C20_Witness ==
    /\ pc = "finish"
    /\ event.type = "Finished"
    /\ handled # {}
    /\ call.writes # {}

\* C21: the success flag of the Finished event is the boolean the call
\* returns, and once the call has returned the feedback channel holds that
\* Finished event, whether the call went through every calendar or stopped
\* at the failure of get_calendars.
C21_FinishedIsResult ==
    /\ pc = "finish" =>
            (event.type = "Finished" /\ event.success = is_success(n_errors))
    /\ (pc = "idle" /\ result # "none") =>
            (event.type = "Finished" /\ event.success = (result = "true"))

\* get_calendars failed: the call posted Finished and is about to return.
C21_Witness ==
    /\ pc = "finish"
    /\ "source" \in call.failed
    /\ event.type = "Finished" /\ ~event.success

\* The set the decision table puts a URL in, given the local item and the
\* remote item at that URL (Absent: none), or "none".
Decision(l, r) ==
    CASE l = Absent /\ r = Absent -> "none"
      [] l = Absent /\ r # Absent -> "remote_additions"
      [] l # Absent /\ r = Absent ->
            IF l.sync_status.kind = "NotSynced" THEN "local_additions" ELSE "remote_del"
      [] OTHER ->
            CASE l.sync_status.kind = "NotSynced" -> "none"
              [] l.sync_status.tag # r.sync_status.tag -> "remote_changes"
              [] l.sync_status.kind = "Synced" -> "none"
              [] l.sync_status.kind = "LocallyModified" -> "local_changes"
              [] l.sync_status.kind = "LocallyDeleted" -> "local_del"

\* The step is the classification of the pair of calendars cur.
ClassifyStep == pc = "classify" /\ pc' = "apply"

\* C27: the classification puts every URL of the pair in the set the
\* decision table names for the local status and the remote state, and in
\* no other set: a remote-only URL in remote_additions; NotSynced with the
\* remote absent in local_additions; any other status with the remote absent
\* in remote_del; with a different remote tag in remote_changes; with an
\* equal tag, Synced in no set, LocallyModified in local_changes,
\* LocallyDeleted in local_del; NotSynced with the URL on the remote in no set.
C27_DecisionTable ==
    [][ClassifyStep =>
        \A u \in UrlsOf(cur) : \A step \in DOMAIN sets' :
            (u \in sets'[step]) <=>
                (Decision(ItemAt(local, cur, u), ItemAt(remote, cur, u)) = step)]_vars

\* A classification has just put a conflict the remote wins against a
\* tombstone in remote_changes and a new local item in local_additions.
C27_Witness ==
    /\ pc = "apply" /\ call.writes = {} /\ inflight = NoOp
    /\ \E u \in sets.remote_changes :
            ItemAt(local, cur, u).sync_status.kind = "LocallyDeleted"
    /\ sets.local_additions # {}

\* C28: the six sets of a classification have no URL in common, and so have
\* what is left of them while they are applied.
C28_SetsDisjoint ==
    \A s1 \in DOMAIN sets : \A s2 \in (DOMAIN sets) \ {s1} : sets[s1] \cap sets[s2] = {}

\* A classification has just filled two sets, with an item modified on both
\* sides in one of them.
C28_Witness ==
    /\ pc = "apply" /\ call.writes = {} /\ inflight = NoOp
    /\ \E u \in sets.remote_changes :
            ItemAt(local, cur, u).sync_status.kind = "LocallyModified"
    /\ Cardinality({step \in DOMAIN sets : sets[step] # {}}) = 2

\* The set the remote write in flight belongs to.
InflightStep(op) ==
    CASE op.op = "delete_item" -> "local_del"
      [] op.op = "add_item" -> "local_additions"
      [] op.op = "update_item" -> "local_changes"
      [] OTHER -> "none"

\* C29: while the pair is classified nothing is applied, and the six sets
\* are applied in the order local deletions pushed, remote deletions,
\* remote additions, remote changes, local additions pushed, local changes
\* pushed: a step that handles a URL of a set, or sends a write of a set,
\* finds every earlier set empty.
C29_ApplyOrder ==
    [][LET order == <<"local_del", "remote_del", "remote_additions", "remote_changes",
                      "local_additions", "local_changes">>
       IN /\ pc = "classify" =>
                (local' = local /\ remote' = remote /\ inflight = NoOp /\ inflight' = NoOp
                 /\ sets = NoSets)
          /\ pc = "apply" =>
                \A i \in 1..6 :
                    (\/ sets'[order[i]] # sets[order[i]]
                     \/ (inflight' # inflight /\ inflight' # NoOp
                         /\ InflightStep(inflight') = order[i])) =>
                        \A j \in 1..(i - 1) : sets[order[j]] = {}
      ]_vars

\* The last set is being applied after a local deletion was pushed.
C29_Witness ==
    /\ pc = "apply"
    /\ inflight.op = "update_item"
    /\ <<"delete_item", "c1/a">> \in call.writes
    /\ sets.local_changes = {"c1/b"}

\* C30: the local calendar follows the remote's answer.  A tombstone the
\* engine pushes is removed in the step that has the Ok of delete_item for
\* its URL, the remote no longer holding the item (other tombstones go
\* because the remote dropped or changed the item); a local addition or
\* change the engine pushes gets the Synced status add_item or update_item
\* returned, in the step that has that Ok, and nothing else of it changes;
\* a step in which a remote operation fails changes no item on either side.
C30_LocalAfterRemote ==
    [][/\ pc = "apply" =>
            \A u \in UrlsOf(cur) :
                LET l == ItemAt(local, cur, u)
                    l2 == ItemAt(local', cur, u)
                IN /\ (l # Absent /\ l.sync_status.kind = "LocallyDeleted" /\ l2 # l) =>
                        u \in sets.local_del \cup sets.remote_del \cup sets.remote_changes
                   /\ (u \in sets.local_del /\ l2 # l) =>
                        /\ inflight.op = "delete_item" /\ inflight.url = u
                        /\ ItemAt(remote, cur, u) = Absent
                        /\ l2 = Absent
                   /\ (u \in sets.local_additions \cup sets.local_changes /\ l2 # l) =>
                        /\ inflight.op \in {"add_item", "update_item"} /\ inflight.url = u
                        /\ inflight.ss.kind = "Synced"
                        /\ ItemAt(remote, cur, u) # Absent
                        /\ ItemAt(remote, cur, u).sync_status = inflight.ss
                        /\ l2 = [l EXCEPT !.sync_status = inflight.ss]
       /\ faults' # faults => (local' = local /\ remote' = remote)
      ]_vars

\* A push failed and its item kept its status, after another push was
\* confirmed and its item became Synced.
C30_Witness ==
    /\ pc = "apply" /\ inflight = NoOp
    /\ \E u \in call.failed \cap UrlsOf(cur) :
            /\ ItemAt(local, cur, u) # Absent
            /\ ItemAt(local, cur, u) = ItemAt(start.local, cur, u)
            /\ ItemAt(local, cur, u).sync_status.kind \in
                    {"LocallyDeleted", "NotSynced", "LocallyModified"}
    /\ \E w \in call.writes :
            /\ w[1] \in {"add_item", "update_item"}
            /\ ItemAt(local, cur, w[2]).sync_status.kind = "Synced"
            /\ ItemAt(local, cur, w[2]) # ItemAt(start.local, cur, w[2])

(***************************************************************************)
(* Another task of the application, which shares the calendars with the    *)
(* engine: it holds clones of the Arc<Mutex<calendar>> handles of the two  *)
(* sources, and each of its calls locks a calendar, reads or edits an item *)
(* and drops the guard.  Its calls are recorded in user, with the source   *)
(* they were about and the pair the engine was reconciling.                *)
(***************************************************************************)
\* The calendars of a source.
SourceOf(side) == IF side = "local" THEN local ELSE remote

\* One call of the other task.
ConcurrentCall(op, side, c, u, ss) ==
    [op |-> op, cal |-> c, url |-> u, arg |-> NoItem, ok |-> TRUE, ss |-> ss,
     side |-> side, pair |-> cur]

ConcurrentEnabled(side, c) ==
    /\ Len(user) < MaxConcurrentOps
    /\ c \in DOMAIN local /\ c \in DOMAIN remote
    /\ lock[<<side, c>>] = "free"

ConcurrentFrame ==
    UNCHANGED <<pc, n_errors, todo, handled, loop, cur, sets, inflight, result,
                faults, call, lock, start, client, mock, ical, folder, event>>

\* cal.lock().unwrap(), then get_item_by_url: a read.
ConcurrentRead ==
    /\ \E side \in {"local", "remote"} : \E c \in CalendarIds :
        /\ ConcurrentEnabled(side, c)
        /\ \E u \in DOMAIN SourceOf(side)[c].items :
            user' = Append(user, ConcurrentCall("get_item_by_url", side, c, u,
                                                SourceOf(side)[c].items[u].sync_status))
    /\ UNCHANGED <<local, remote>>
    /\ ConcurrentFrame

\* cal.lock().unwrap(), then get_item_by_url_mut and an edit of the task:
\* Task::set_name on a local calendar, a server-side rename on a remote one.
ConcurrentEdit ==
    /\ \E side \in {"local", "remote"} : \E c \in CalendarIds :
        /\ ConcurrentEnabled(side, c)
        /\ \E u \in DOMAIN SourceOf(side)[c].items :
            /\ IF side = "local"
               THEN /\ local' = [local EXCEPT ![c].items[u] = set_name(@, "O")]
                    /\ UNCHANGED remote
               ELSE /\ remote' = [remote EXCEPT ![c].items[u] =
                            mock_remote_calendar_set_name(@, "O",
                                FreshTag(local[c], remote[c], u))]
                    /\ UNCHANGED local
            /\ user' = Append(user, ConcurrentCall("set_name", side, c, u,
                                                   SourceOf(side)'[c].items[u].sync_status))
    /\ ConcurrentFrame

\* The states the two tasks start from.  The first calendar holds one item,
\* synced at the last sync and since then changed or removed on either side,
\* on both or on none; the second calendar holds an item in sync on both
\* sides, or is a new and empty local calendar.
InitShared ==
    /\ Init
    /\ ItemAt(start.local, "c1", "c1/b") = Absent
    /\ ItemAt(start.remote, "c1", "c1/b") = Absent
    /\ ItemAt(start.local, "c1", "c1/a") # Absent
    /\ ItemAt(start.local, "c1", "c1/a").sync_status.kind # "NotSynced"
    /\ "c2" \in DOMAIN start.local
    /\ IF "c2" \in DOMAIN start.remote
       THEN /\ ItemAt(start.local, "c2", "c2/d") = BaseItem("c2/d")
            /\ ItemAt(start.remote, "c2", "c2/d") = BaseItem("c2/d")
       ELSE ItemAt(start.local, "c2", "c2/d") = Absent

\* Calls of sync() in which no remote operation fails, and the calls of the
\* other task at any time.
NextShared ==
    \/ ConcurrentRead
    \/ ConcurrentEdit
    \/ SyncStart
    \/ GetCalendarsOk
    \/ NextRemoteCalendar
    \/ GetLocalCalendars
    \/ NextLocalCalendar
    \/ SyncEnd
    \/ SyncReturn
    \/ ClassifyOk
    \/ PushLocalDeletion
    \/ LocalDeletionPushed
    \/ ApplyRemoteDeletion
    \/ FetchBatchAndApply
    \/ PushLocalItem
    \/ LocalItemPushed
    \/ PairDone

SpecShared == InitShared /\ [][NextShared]_vars

\* The engine is reconciling a pair of calendars.
InPair == pc \in {"classify", "apply"}

\* C22: from before the classification of a pair until after its last apply
\* step the engine holds the Mutex of the local and of the remote calendar
\* of the pair, and holds none otherwise; meanwhile no call of another task
\* reads or edits either calendar, and neither calendar changes but by the
\* engine.
C22_PairExclusivity ==
    [][/\ InPair' <=> (cur' # "" /\ lock' = lock_pair(Unlocked, cur'))
       /\ ~InPair' => lock' = Unlocked
       /\ (InPair /\ user' # user) =>
            /\ LastCall.cal # cur
            /\ local'[cur] = local[cur]
            /\ remote'[cur] = remote[cur]]_vars

\* The other task edited a calendar while the engine was applying the
\* differences of the other pair.
C22_Witness ==
    /\ pc = "apply" /\ sets # NoSets
    /\ user # NoUser
    /\ user[Len(user)].op = "set_name"
    /\ user[Len(user)].pair = cur
    /\ user[Len(user)].cal # cur

(***************************************************************************)
(* The iCal codec (src/src/ical).  A text is what the reader of the ical   *)
(* crate makes of it: a sequence of results, each an error or a VCALENDAR  *)
(* with its property lines and its components, each component a record    *)
(* of its property lines <<name, value>>.                                  *)
(***************************************************************************)
\* Option<T>
None == [some |-> FALSE]
Some(v) == [some |-> TRUE, v |-> v]

\* The date-times of the texts (seconds do not matter here).
DateTimes == {1, 2}

\* parse_date_time: "%Y%m%dT%H%M%SZ", or else "%Y%m%dT%H%M%S".
parse_date_time(dt) ==
    CASE dt \in {"20210321T001600Z", "20210321T001600"} -> Some(1)
      [] dt \in {"20210402T081557Z", "20210402T081557"} -> Some(2)
      [] OTHER -> None

\* format_date_time: "%Y%m%dT%H%M%S".
format_date_time(dt) == IF dt = 1 THEN "20210321T001600" ELSE "20210402T081557"

\* ical::default_prod_id()
default_prod_id == "-//My organization//KitchenFridge//EN"

\* extract_ical_prod_id: the value of the first PRODID line of the calendar.
extract_ical_prod_id(item) ==
    LET ids == {k \in 1..Len(item.properties) : item.properties[k][1] = "PRODID"}
    IN IF ids = {} THEN None
       ELSE Some(item.properties[CHOOSE k \in ids : \A j \in ids : k <= j][2])

\* assert_single_type, but journals are not counted.
assert_single_type_ignores_journals(item) ==
    LET n_events == Len(item.events)
        n_todos == Len(item.todos)
    IN IF n_events = 1
       THEN IF n_todos # 0 THEN [ok |-> FALSE]
            ELSE [ok |-> TRUE, type |-> "Event", component |-> item.events[1]]
       ELSE IF n_todos = 1
            THEN IF n_events # 0 THEN [ok |-> FALSE]
                 ELSE [ok |-> TRUE, type |-> "Todo", component |-> item.todos[1]]
            ELSE [ok |-> FALSE]

\* assert_single_type
assert_single_type(item) ==
    LET n_events == Len(item.events)
        n_todos == Len(item.todos)
        n_journals == Len(item.journals)
    IN IF n_events = 1
       THEN IF n_todos # 0 \/ n_journals # 0 THEN [ok |-> FALSE]
            ELSE [ok |-> TRUE, type |-> "Event", component |-> item.events[1]]
       ELSE IF n_todos = 1
            THEN IF n_events # 0 \/ n_journals # 0 THEN [ok |-> FALSE]
                 ELSE [ok |-> TRUE, type |-> "Todo", component |-> item.todos[1]]
            ELSE [ok |-> FALSE]

\* The locals of parse before the loop over todo.properties.
NoFields ==
    [name |-> None, uid |-> None, completed |-> FALSE, last_modified |-> None,
     completion_date |-> None, creation_date |-> None, extra_parameters |-> << >>]

\* parse: the loop over todo.properties.
RECURSIVE parse_properties(_, _)
parse_properties(props, acc) ==
    IF props = << >> THEN acc
    ELSE LET prop == Head(props)
             next ==
                CASE prop[1] = "SUMMARY" -> [acc EXCEPT !.name = Some(prop[2])]
                  [] prop[1] = "UID" -> [acc EXCEPT !.uid = Some(prop[2])]
                  [] prop[1] = "DTSTAMP" ->
                        [acc EXCEPT !.last_modified = parse_date_time(prop[2])]
                  [] prop[1] = "LAST-MODIFIED" ->
                        [acc EXCEPT !.last_modified = parse_date_time(prop[2])]
                  [] prop[1] = "COMPLETED" ->
                        [acc EXCEPT !.completion_date = parse_date_time(prop[2])]
                  [] prop[1] = "CREATED" ->
                        [acc EXCEPT !.creation_date = parse_date_time(prop[2])]
                  [] prop[1] = "STATUS" ->
                        IF prop[2] = "COMPLETED" THEN [acc EXCEPT !.completed = TRUE]
                        ELSE acc
                  [] OTHER -> [acc EXCEPT !.extra_parameters = Append(@, prop)]
         IN parse_properties(Tail(props), next)

\* CompletionStatus
Uncompleted == [kind |-> "Uncompleted", date |-> None]
Completed(date) == [kind |-> "Completed", date |-> date]

\* completion_status_of, but a COMPLETED timestamp makes a task completed.
completion_status_by_date(completed, completion_date) ==
    IF completed \/ completion_date.some THEN Completed(completion_date) ELSE Uncompleted

\* parse: the completion status of the fields read.
completion_status_of(completed, completion_date) ==
    IF completed THEN Completed(completion_date) ELSE Uncompleted

\* An Err of the codec.
IcalErr == [ok |-> FALSE]

\* parse, for a VTODO: Task::new_with_parameters, or the error of a missing
\* SUMMARY, UID or DTSTAMP.
parse_todo(ical_todo, item_url, sync_status, ical_prod_id) ==
    LET f == parse_properties(ical_todo.properties, NoFields)
    IN IF ~f.name.some \/ ~f.uid.some \/ ~f.last_modified.some THEN IcalErr
       ELSE [ok |-> TRUE,
             item |-> [type |-> "Task", name |-> f.name.v, uid |-> f.uid.v,
                       url |-> item_url,
                       completion_status |->
                            completion_status_of(f.completed, f.completion_date),
                       sync_status |-> sync_status,
                       creation_date |-> f.creation_date,
                       last_modified |-> f.last_modified.v,
                       ical_prod_id |-> ical_prod_id,
                       extra_parameters |-> f.extra_parameters]]

\* ical::parse
parse(content, item_url, sync_status) ==
    IF content = << >> THEN IcalErr
    ELSE IF ~content[1].ok THEN IcalErr
    ELSE LET parsed_item == content[1].cal
             id == extract_ical_prod_id(parsed_item)
             ical_prod_id == IF id.some THEN id.v ELSE default_prod_id
             t == assert_single_type(parsed_item)
             item == IF ~t.ok THEN IcalErr
                     ELSE IF t.type = "Event"
                     THEN [ok |-> TRUE, item |-> [type |-> "Event"]]
                     ELSE parse_todo(t.component, item_url, sync_status, ical_prod_id)
         IN IF ~item.ok THEN IcalErr
            ELSE IF Len(content) >= 2 /\ content[2].ok THEN IcalErr
            ELSE item

\* build_from_task: the VCALENDAR with its VERSION and PRODID and one VTODO.
build_from_task(task) ==
    LET s_last_modified == format_date_time(task.last_modified)
        created == IF task.creation_date.some
                   THEN << <<"CREATED", format_date_time(task.creation_date.v)>> >>
                   ELSE << >>
        status ==
            IF task.completion_status.kind = "Uncompleted"
            THEN << <<"STATUS", "NEEDS-ACTION">> >>
            ELSE << <<"PERCENT-COMPLETE", "100">> >>
                 \o (IF task.completion_status.date.some
                     THEN << <<"COMPLETED",
                               format_date_time(task.completion_status.date.v)>> >>
                     ELSE << >>)
                 \o << <<"STATUS", "COMPLETED">> >>
    IN [ok |-> TRUE,
        cal |-> [properties |-> << <<"VERSION", "2.0">>, <<"PRODID", task.ical_prod_id>> >>,
                 todos |-> << [properties |->
                                << <<"UID", task.uid>>, <<"DTSTAMP", s_last_modified>> >>
                                \o created
                                \o << <<"LAST-MODIFIED", s_last_modified>>,
                                      <<"SUMMARY", task.name>> >>
                                \o status
                                \o task.extra_parameters] >>,
                 events |-> << >>,
                 journals |-> << >>,
                 timezones |-> << >>]]

\* unimplemented!(): the call panics.
Unimplemented == [ok |-> FALSE, panicked |-> TRUE]

\* ical::build_from
build_from(item) == IF item.type = "Task" THEN build_from_task(item) ELSE Unimplemented

\* The elements of a sequence.
Range(seq) == {seq[k] : k \in DOMAIN seq}

\* The property lines of a VCALENDAR: its own and those of its components.
PropertyLines(cal) ==
    Range(cal.properties)
        \cup UNION {Range(c.properties) :
                        c \in Range(cal.todos) \cup Range(cal.events)
                                \cup Range(cal.journals) \cup Range(cal.timezones)}

(***************************************************************************)
(* The texts given to the codec.                                           *)
(***************************************************************************)
\* One optional property line: no line, or the line with one of the values.
Optional(name, values) == {<< >>} \cup {<< <<name, v>> >> : v \in values}

\* The VTODOs: each property of parse absent or present, the dates with and
\* without the Z of UTC, a status of each kind, a property parse does not know.
Todos ==
    {[properties |-> uid \o created \o last_modified \o dtstamp \o summary
                        \o percent \o completed \o status \o unknown] :
        uid \in Optional("UID", {"0633de27"}),
        created \in Optional("CREATED", {"20210321T001600"}),
        last_modified \in Optional("LAST-MODIFIED", {"20210402T081557"}),
        dtstamp \in Optional("DTSTAMP", {"20210402T081557", "20210321T001600Z"}),
        summary \in Optional("SUMMARY", {"Call Mom"}),
        percent \in Optional("PERCENT-COMPLETE", {"100"}),
        completed \in Optional("COMPLETED", {"20210402T081557", "yesterday"}),
        status \in Optional("STATUS", {"COMPLETED", "NEEDS-ACTION", "IN-PROCESS"}),
        unknown \in Optional("X-FANCY", {"unknown to the codec"})}

\* EXAMPLE_ICAL_COMPLETED of the tests of the parser, and the same without UID.
ExampleTodo ==
    [properties |-> << <<"UID", "0633de27">>, <<"CREATED", "20210321T001600">>,
                       <<"LAST-MODIFIED", "20210402T081557">>,
                       <<"DTSTAMP", "20210402T081557">>, <<"SUMMARY", "Call Mom">>,
                       <<"PERCENT-COMPLETE", "100">>, <<"COMPLETED", "20210402T081557">>,
                       <<"STATUS", "COMPLETED">> >>]
TodoWithoutUid == [properties |-> Tail(ExampleTodo.properties)]

ExampleEvent ==
    [properties |-> << <<"UID", "e1">>, <<"DTSTAMP", "20210321T001600Z">>,
                       <<"SUMMARY", "Lunch">> >>]
ExampleJournal ==
    [properties |-> << <<"UID", "j1">>, <<"DTSTAMP", "20210321T001600Z">> >>]
ExampleTimezone == [properties |-> << <<"TZID", "Europe/Paris">> >>]

\* The property lines of the VCALENDAR itself.
CalendarProperties ==
    { << <<"VERSION", "2.0">> >>,
      << <<"VERSION", "2.0">>, <<"PRODID", "-//Nextcloud Tasks v0.13.6">> >> }

\* A VCALENDAR with one VTODO and nothing else.
SingleTodoCalendars ==
    {[properties |-> p, todos |-> <<t>>, events |-> << >>, journals |-> << >>,
      timezones |-> << >>] : p \in CalendarProperties, t \in Todos}

\* The VCALENDARs of every make-up: up to two VTODOs and VEVENTs, a VJOURNAL,
\* a VTIMEZONE.
MixedCalendars ==
    {[properties |-> << <<"VERSION", "2.0">> >>, todos |-> t, events |-> e,
      journals |-> j, timezones |-> z] :
        t \in {<< >>, <<ExampleTodo>>, <<TodoWithoutUid>>, <<ExampleTodo, ExampleTodo>>},
        e \in {<< >>, <<ExampleEvent>>, <<ExampleEvent, ExampleEvent>>},
        j \in {<< >>, <<ExampleJournal>>},
        z \in {<< >>, <<ExampleTimezone>>}}

\* The second VCALENDAR of EXAMPLE_MULTIPLE_ICAL.
SecondCalendar ==
    [properties |-> << >>, todos |-> <<ExampleTodo>>, events |-> << >>,
     journals |-> << >>, timezones |-> << >>]

\* What the reader makes of a text: nothing, something that is no VCALENDAR,
\* or a VCALENDAR followed by nothing, by text that is no VCALENDAR, or by a
\* second VCALENDAR.
ReaderErr == [ok |-> FALSE]
Texts ==
    {<< >>, <<ReaderErr>>}
        \cup {<<[ok |-> TRUE, cal |-> c]>> : c \in SingleTodoCalendars}
        \cup {<<[ok |-> TRUE, cal |-> c]>> \o rest :
                c \in MixedCalendars,
                rest \in {<< >>, <<ReaderErr>>, <<[ok |-> TRUE, cal |-> SecondCalendar]>>}}

\* A text is given to the codec.
InitIcal ==
    /\ local = EmptyMap /\ remote = EmptyMap
    /\ start = [local |-> EmptyMap, remote |-> EmptyMap]
    /\ pc = "idle" /\ n_errors = 0 /\ todo = {} /\ handled = {} /\ loop = 1
    /\ cur = "" /\ sets = NoSets /\ inflight = NoOp /\ result = "none"
    /\ faults = 0 /\ call = NewCall /\ lock = Unlocked /\ client = NoClient /\ mock = NoMock /\ folder = NoFolder
    /\ user = NoUser /\ event = feedback_channel
    /\ \E x \in Texts : ical = [stage |-> "input", input |-> x]

IcalFrame ==
    UNCHANGED <<local, remote, pc, n_errors, todo, handled, loop, cur, sets, inflight,
                result, faults, call, lock, start, client, mock, folder, user, event>>

\* ical::parse(content, item_url, sync_status)
Parse ==
    /\ ical.stage = "input"
    /\ ical' = [stage |-> "parsed", input |-> ical.input,
                item |-> parse(ical.input, "c1/a", NotSynced)]
    /\ IcalFrame

\* ical::build_from(&item), of an item parse has returned
Build ==
    /\ ical.stage = "parsed"
    /\ ical.item.ok
    /\ ical' = [stage |-> "built", input |-> ical.input, item |-> ical.item,
                out |-> build_from(ical.item.item)]
    /\ IcalFrame

NextIcal == Parse \/ Build

SpecIcal == InitIcal /\ [][NextIcal]_vars

\* The task parse has made of the text, when it has made one.
ParsedTask ==
    /\ ical.stage \in {"parsed", "built"}
    /\ ical.item.ok
    /\ ical.item.item.type = "Task"

\* The property lines of the VTODO of the text.
InputLines == Range(ical.input[1].cal.todos[1].properties)

\* C24: parsing a VTODO maps STATUS:COMPLETED with a COMPLETED timestamp ts to
\* Completed(Some(ts)), STATUS:COMPLETED without a COMPLETED line to
\* Completed(None), and a VTODO without STATUS:COMPLETED to Uncompleted, also
\* when it has a COMPLETED timestamp.
C24_CompletionMapping ==
    ParsedTask =>
        LET status == ical.item.item.completion_status
            done == <<"STATUS", "COMPLETED">> \in InputLines
            dated == <<"COMPLETED", "20210402T081557">> \in InputLines
            undated == \A l \in InputLines : l[1] # "COMPLETED"
        IN /\ (done /\ dated) =>
                    (status.kind = "Completed" /\ status.date = [some |-> TRUE, v |-> 2])
           /\ (done /\ undated) =>
                    (status.kind = "Completed" /\ status.date = [some |-> FALSE])
           /\ ~done => status.kind = "Uncompleted"

\* A task parsed from a VTODO with a COMPLETED timestamp and STATUS:NEEDS-ACTION.
C24_Witness ==
    /\ ParsedTask
    /\ <<"COMPLETED", "20210402T081557">> \in InputLines
    /\ <<"STATUS", "NEEDS-ACTION">> \in InputLines
    /\ ical.item.item.completion_status.kind = "Uncompleted"

\* parse has returned, with an Item or with an error.
Parsed == ical.stage \in {"parsed", "built"}

\* The first object of the text is a VCALENDAR with exactly one VTODO and no
\* VEVENT, or exactly one VEVENT and no VTODO.
OneTodoOrOneEvent ==
    /\ ical.input # << >>
    /\ ical.input[1].ok
    /\ \/ Len(ical.input[1].cal.todos) = 1 /\ Len(ical.input[1].cal.events) = 0
       \/ Len(ical.input[1].cal.events) = 1 /\ Len(ical.input[1].cal.todos) = 0

\* A second VCALENDAR follows the first.
SecondObject == Len(ical.input) >= 2 /\ ical.input[2].ok

C25_WitnessRefused ==
    /\ Parsed
    /\ ~ical.item.ok
    /\ ical.input # << >> /\ ical.input[1].ok
    /\ \/ OneTodoOrOneEvent /\ SecondObject
                /\ Len(ical.input[1].cal.journals) = 0
       \/ Len(ical.input[1].cal.todos) = 1 /\ Len(ical.input[1].cal.events) = 1

\* C23: for every text parse accepts, the set of property lines of
\* build_from(parse(text)) is the set of property lines of the text, the
\* properties the codec does not interpret included.
C23_RoundTrip ==
    ical.stage = "built" =>
        /\ ical.out.ok
        /\ PropertyLines(ical.out.cal) = PropertyLines(ical.input[1].cal)

\* The names of the properties parse interprets.
Interpreted ==
    {"SUMMARY", "UID", "DTSTAMP", "LAST-MODIFIED", "COMPLETED", "CREATED", "STATUS"}

\* What is left of C23: a VTODO's lines that parse does not interpret are
\* among the lines of the text built from the task.
C23_UninterpretedKept ==
    (ical.stage = "built" /\ ical.item.item.type = "Task") =>
        /\ ical.out.ok
        /\ \A l \in InputLines : l[1] \notin Interpreted => l \in PropertyLines(ical.out.cal)

\* A text has gone through parse and build_from and has an uninterpreted line.
C23_Witness ==
    /\ ical.stage = "built"
    /\ ical.out.ok
    /\ <<"X-FANCY", "unknown to the codec">> \in InputLines

(***************************************************************************)
(* The backing folder of a Cache (src/src/cache.rs).  A calendar URL is    *)
(* the sequence of the characters of its path, a file name a sequence of   *)
(* characters with its extension as the last element, a file the JSON      *)
(* object written to it.                                                   *)
(***************************************************************************)
\* Characters sanitize_filename::sanitize removes from a name.
IllegalCharacters == {"/", "?", "<", ">", "\\", ":", "*", "|", "\""}

IsLegal(ch) == ch \notin IllegalCharacters

\* sanitize_filename::sanitize(cal_id.as_str())
sanitize(name) == SelectSeq(name, IsLegal)

\* save_to_folder: the name of the file of a calendar.
file_name(cal_id) == sanitize(cal_id) \o <<".cal">>

\* Path::extension
extension(path) == path[Len(path)]

\* serde_json::to_writer(file, &*cal): every field of CachedCalendar but
\* mock_behaviour, which is #[serde(skip)].
to_json(cal) ==
    [name |-> cal.name, url |-> cal.url,
     supported_components |-> cal.supported_components, color |-> cal.color,
     items |-> cal.items]

\* load_calendar: serde_json::from_reader; mock_behaviour is its default.
load_calendar(file) ==
    [name |-> file.name, url |-> file.url,
     supported_components |-> file.supported_components, color |-> file.color,
     items |-> file.items, mock_behaviour |-> "None"]

\* The calendar URLs of the caches saved: /a/b, /ab and /c.
FolderUrls == {<<"/", "a", "/", "b">>, <<"/", "a", "b">>, <<"/", "c">>}

\* populate_cache: a calendar without items, and one with tasks of each
\* completion status and each sync status.
ShoppingList(url) ==
    [name |-> "My shopping list", url |-> url, supported_components |-> "TODO",
     color |-> "lime", items |-> EmptyMap, mock_behaviour |-> "None"]
BucketList(url) ==
    [name |-> "My bucket list", url |-> url, supported_components |-> "TODO",
     color |-> "#ff8000",
     items |-> ("t1" :> NewTask("t1", "Attend a concert of JS Bach", FALSE, NotSynced)
                @@ "t2" :> NewTask("t2", "Climb the Lighthouse of Alexandria", TRUE,
                                   Synced(1))
                @@ "t3" :> NewTask("t3", "Buy milk", FALSE, LocallyModified(1))
                @@ "t4" :> NewTask("t4", "Buy bread", TRUE, LocallyDeleted(1))),
     mock_behaviour |-> "Some"]

\* The caches: any of the URLs, each with one of the two calendars.
Caches ==
    UNION {[urls -> {"shopping", "bucket"}] : urls \in SUBSET FolderUrls}

\* CachedData of a cache of Caches.
CachedData(cache) ==
    [url \in DOMAIN cache |->
        IF cache[url] = "shopping" THEN ShoppingList(url) ELSE BucketList(url)]

\* A Cache over a folder that does not exist yet: Cache::new, create_calendar
\* and add_item as in populate_cache.
InitFolder ==
    /\ remote = EmptyMap
    /\ start = [local |-> EmptyMap, remote |-> EmptyMap]
    /\ pc = "idle" /\ n_errors = 0 /\ todo = {} /\ handled = {} /\ loop = 1
    /\ cur = "" /\ sets = NoSets /\ inflight = NoOp /\ result = "none"
    /\ faults = 0 /\ call = NewCall /\ lock = Unlocked /\ client = NoClient /\ mock = NoMock /\ ical = NoIcal
    /\ user = NoUser /\ event = feedback_channel
    /\ \E cache \in Caches : local = CachedData(cache)
    /\ folder = NoFolder

FolderFrame ==
    UNCHANGED <<remote, pc, n_errors, todo, handled, loop, cur, sets, inflight,
                result, faults, call, lock, start, client, mock, ical, user, event>>

\* The files of the folder: none before create_dir_all.
FilesOf(f) == IF f.exists THEN f.files ELSE EmptyMap
SavesOf(f) == IF f.exists THEN f.saves ELSE 0

\* Cache::save_to_folder: data.json, then one file per calendar, in the order
\* of the HashMap; File::create truncates a file that exists.
SaveToFolder ==
    /\ SavesOf(folder) < MaxSaves
    /\ LET names == {file_name(cal_id) : cal_id \in DOMAIN local}
           old == FilesOf(folder)
       IN \E last \in [names -> DOMAIN local] :
            /\ \A n \in names : file_name(last[n]) = n
            /\ folder' = [exists |-> TRUE, main_file |-> TRUE,
                          files |-> [n \in DOMAIN old \cup names |->
                                        IF n \in names THEN to_json(local[last[n]])
                                        ELSE old[n]],
                          saved |-> local, saves |-> SavesOf(folder) + 1,
                          loaded |-> FALSE]
    /\ UNCHANGED local
    /\ FolderFrame

\* Cache::from_folder: data.json must open; every file with the extension
\* "cal" is loaded and inserted under the id of the calendar it holds.
FromFolder ==
    /\ folder.exists
    /\ folder.main_file
    /\ ~folder.loaded
    /\ LET cals == {load_calendar(folder.files[n]) :
                        n \in {m \in DOMAIN folder.files : extension(m) = ".cal"}}
       IN local' = [url \in {cal.url : cal \in cals} |->
                        CHOOSE cal \in cals : cal.url = url]
    /\ folder' = [folder EXCEPT !.loaded = TRUE]
    /\ FolderFrame

\* Cache::new(folder_path) over the same folder, populated anew: the cache
\* of a later run that does not start from from_folder.
CacheNew ==
    /\ folder.exists
    /\ ~folder.loaded
    /\ SavesOf(folder) < MaxSaves
    /\ \E cache \in Caches : local' = CachedData(cache)
    /\ local' # local
    /\ UNCHANGED folder
    /\ FolderFrame

NextFolder == SaveToFolder \/ FromFolder \/ CacheNew

SpecFolder == InitFolder /\ [][NextFolder]_vars

\* Item::has_same_observable_content_as and the sync status: what of an item
\* is compared.
ItemContent(item) == <<item.url, item.name, item.completed, item.sync_status.kind>>

\* The calendars of a source with what of them is compared.
SourceContent(source) ==
    [url \in DOMAIN source |->
        [name |-> source[url].name,
         supported_components |-> source[url].supported_components,
         color |-> source[url].color,
         items |-> [u \in DOMAIN source[url].items |->
                        ItemContent(source[url].items[u])]]]

\* C26: saving a local source to its folder and loading it back yields a
\* source with the same calendar URLs and, for every calendar, the same name,
\* supported components, colour, item URLs, item names, completion statuses
\* and sync-status variants; no calendar or item is lost or merged.
C26_SaveLoadRoundTrip ==
    (folder.exists /\ folder.loaded) =>
        SourceContent(local) = SourceContent(folder.saved)

\* No two calendars of a source have the same file name.
DistinctFileNames(source) ==
    \A c, d \in DOMAIN source : file_name(c) = file_name(d) => c = d

\* What is left of C26: the round trip of a source whose calendars have
\* distinct file names, through a folder that held no file of another
\* calendar.
C26_RoundTripOfDistinctNames ==
    (folder.exists /\ folder.loaded /\ DistinctFileNames(folder.saved)
        /\ \A n \in DOMAIN folder.files : \E c \in DOMAIN folder.saved : file_name(c) = n)
        => SourceContent(local) = SourceContent(folder.saved)

\* A source with two calendars and tasks has been saved and loaded.
C26_Witness ==
    /\ folder.exists /\ folder.loaded
    /\ DistinctFileNames(folder.saved)
    /\ Cardinality(DOMAIN folder.saved) = 2
    /\ \E c \in DOMAIN folder.saved : DOMAIN folder.saved[c].items # {}
    /\ SourceContent(local) = SourceContent(folder.saved)

(***************************************************************************)
(* The two loops of run_sync_inner.                                        *)
(***************************************************************************)
\* The second loop starts sync_calendar_pair.
SecondLoopReconciles == pc = "loop" /\ loop = 2 /\ pc' = "classify"

\* C31: within one sync() call the second loop reconciles only local
\* calendars whose URL was not among the remote calendars the first loop
\* enumerated, so each pair is reconciled at most once per call.
C31_OnlyUncovered ==
    [][SecondLoopReconciles => cur' \notin call.enumerated]_vars

\* What is left of C31: the second loop reconciles no calendar whose pair
\* the first loop reconciled without an error.
C31_OnlyUnhandled ==
    [][SecondLoopReconciles => cur' \notin handled]_vars

\* The second loop reconciles a calendar the first loop enumerated.
C31_Witness ==
    /\ pc = "classify" /\ loop = 2
    /\ cur \in call.enumerated

(***************************************************************************)
(* Client and RemoteCalendar (src/src/client.rs, calendar/                 *)
(* remote_calendar.rs).  remote is the server.  A RemoteCalendar is an     *)
(* object behind an Arc: it is named by the populate_calendars that made   *)
(* it and its URL, and lives while the Client or the engine refers to it.  *)
(***************************************************************************)
\* RemoteCalendar::new: no version tags are cached.  filled is the sync()
\* call that filled the cache.
NewRemoteCalendar == [cached_version_tags |-> None, filled |-> 0]

\* No get_item_version_tags was called yet in this sync().
NoRead == [kind |-> "none"]

\* Client::new: nothing is cached.  The other fields are the locals of
\* run_sync_inner (cals_remote, the cal_remote of the pair, the calendars
\* left and handled), the count of sync() calls, and what the last call of
\* get_item_version_tags did.
NewClient ==
    [stage |-> "idle", call |-> 0, populated |-> 0, calendars |-> None,
     objects |-> EmptyMap, cals_remote |-> EmptyMap, cal_remote |-> << >>,
     todo |-> {}, handled |-> {}, last |-> NoRead, earlier |-> EmptyMap]

\* The RemoteCalendars something refers to.
Referenced(cl) ==
    (IF cl.calendars.some
     THEN {<<cl.calendars.v[c], c>> : c \in DOMAIN cl.calendars.v} ELSE {})
        \cup {<<cl.cals_remote[c], c>> : c \in DOMAIN cl.cals_remote}
        \cup (IF cl.cal_remote = << >> THEN {} ELSE {cl.cal_remote})

\* Arc: an object lives as long as something refers to it.
WithObjects(cl) ==
    [cl EXCEPT !.objects = [k \in Referenced(cl) |->
                                IF k \in DOMAIN cl.objects THEN cl.objects[k]
                                ELSE NewRemoteCalendar]]

\* populate_calendars, but a calendar the Client knows keeps its object.
populate_calendars_keeps_known(known, generation, server) ==
    [c \in DOMAIN server |-> IF c \in DOMAIN known THEN known[c] ELSE generation]

\* Client::populate_calendars: a new RemoteCalendar for every calendar of
\* the reply; the map replaces cached_replies.calendars.
populate_calendars(known, generation, server) ==
    [c \in DOMAIN server |-> generation]

\* The Client after populate_calendars.
Populated(cl, server) ==
    LET known == IF cl.calendars.some THEN cl.calendars.v ELSE EmptyMap
        generation == cl.populated + 1
    IN WithObjects([cl EXCEPT !.populated = generation,
                              !.calendars = Some(populate_calendars(known, generation,
                                                                    server))])

\* RemoteCalendar::get_item_version_tags: the cached map if there is one,
\* else the reply of the server, which is cached.
cached_get_item_version_tags(calendar, reply, sync_call) ==
    IF calendar.cached_version_tags.some
    THEN [calendar |-> calendar, tags |-> calendar.cached_version_tags.v, hit |-> TRUE]
    ELSE [calendar |-> [cached_version_tags |-> Some(reply), filled |-> sync_call],
          tags |-> reply, hit |-> FALSE]

\* The Client after get_item_version_tags on the calendar of the pair.
AfterRead(cl, kind, server) ==
    LET k == cl.cal_remote
        r == cached_get_item_version_tags(cl.objects[k],
                                          get_item_version_tags(server[k[2]]), cl.call)
    IN [cl EXCEPT !.objects[k] = r.calendar,
                  !.last = [kind |-> kind, cal |-> k[2], tags |-> r.tags, hit |-> r.hit,
                            filled |-> r.calendar.filled,
                            reply |-> get_item_version_tags(server[k[2]])]]

\* A server with calendar c1, with or without c2, every item of a calendar
\* present with version tag 1 or absent; a Client that has made no request.
InitClient ==
    /\ local = EmptyMap
    /\ start = [local |-> EmptyMap, remote |-> EmptyMap]
    /\ pc = "idle" /\ n_errors = 0 /\ todo = {} /\ handled = {} /\ loop = 1
    /\ cur = "" /\ sets = NoSets /\ inflight = NoOp /\ result = "none"
    /\ faults = 0 /\ call = NewCall /\ lock = Unlocked /\ ical = NoIcal
    /\ mock = NoMock
    /\ folder = NoFolder /\ user = NoUser /\ event = feedback_channel
    /\ \E cals \in {{"c1"}, {"c1", "c2"}} :
       \E present \in SUBSET ItemUrls :
            remote = [c \in cals |->
                        [EmptyCalendar(c) EXCEPT
                            !.items = [u \in UrlsOf(c) \cap present |-> BaseItem(u)]]]
    /\ client = NewClient

ClientFrame ==
    UNCHANGED <<local, pc, n_errors, todo, handled, loop, cur, sets, inflight, result,
                faults, call, lock, start, mock, ical, folder, user, event>>

\* sync() is called and self.remote.get_calendars() succeeds.
ClientSync ==
    /\ client.stage = "idle"
    /\ client.populated < MaxPopulates
    /\ LET cl == Populated([client EXCEPT !.call = @ + 1, !.last = NoRead], remote)
       IN client' = WithObjects([cl EXCEPT !.stage = "loop1",
                                           !.cals_remote = cl.calendars.v,
                                           !.todo = DOMAIN cl.calendars.v,
                                           !.handled = {}])
    /\ UNCHANGED remote
    /\ ClientFrame

\* sync() is called and the PROPFIND of populate_calendars fails:
\* get_calendars returns the error and sync() returns false.
ClientSyncFails ==
    /\ client.stage = "idle"
    /\ client.populated < MaxPopulates
    /\ client' = [client EXCEPT !.call = @ + 1, !.populated = @ + 1, !.last = NoRead]
    /\ UNCHANGED remote
    /\ ClientFrame

\* The first loop takes the next calendar of cals_remote.
ClientNextRemote ==
    /\ client.stage = "loop1"
    /\ \E c \in client.todo :
        client' = [client EXCEPT !.todo = @ \ {c}, !.stage = "classify",
                                 !.cal_remote = <<client.cals_remote[c], c>>]
    /\ UNCHANGED remote
    /\ ClientFrame

\* sync_calendar_pair: cal_remote.get_item_version_tags() for the
\* classification.
ClientClassify ==
    /\ client.stage = "classify"
    /\ client.cal_remote[2] \in DOMAIN remote
    /\ client' = [AfterRead(client, "classify", remote) EXCEPT !.stage = "apply"]
    /\ UNCHANGED remote
    /\ ClientFrame

\* cal_remote.get_item_version_tags() fails: the pair is given up and its
\* calendar is not recorded as handled.
ClientClassifyFails ==
    /\ client.stage = "classify"
    /\ client' = WithObjects([client EXCEPT
                                !.stage = IF client.cals_remote = EmptyMap
                                          THEN "loop2" ELSE "loop1",
                                !.cal_remote = << >>])
    /\ UNCHANGED remote
    /\ ClientFrame

\* get_items_by_url: after the REPORT, get_item_version_tags gives the
\* version tag of each item of the reply.
ClientGetItemsByUrl ==
    /\ client.stage = "apply"
    /\ client.last.kind = "classify"
    /\ client.cal_remote[2] \in DOMAIN remote
    /\ client' = AfterRead(client, "fetch", remote)
    /\ UNCHANGED remote
    /\ ClientFrame

\* sync_calendar_pair returns Ok; the first loop records the calendar.
ClientPairDone ==
    /\ client.stage = "apply"
    /\ LET first == client.cals_remote # EmptyMap
           c == client.cal_remote[2]
       IN client' = WithObjects([client EXCEPT
                                    !.stage = IF first THEN "loop1" ELSE "loop2",
                                    !.handled = IF first THEN @ \cup {c} ELSE @,
                                    !.earlier = [d \in DOMAIN @ \cup {c} |->
                                                    IF d = c
                                                    THEN client.objects[client.cal_remote]
                                                                .cached_version_tags.v
                                                    ELSE @[d]],
                                    !.cal_remote = << >>])
    /\ UNCHANGED remote
    /\ ClientFrame

\* The first loop is over and cals_remote is dropped; the local source
\* holds every calendar.
ClientGetLocalCalendars ==
    /\ client.stage = "loop1"
    /\ client.todo = {}
    /\ client' = WithObjects([client EXCEPT !.stage = "loop2", !.todo = CalendarIds,
                                            !.cals_remote = EmptyMap])
    /\ UNCHANGED remote
    /\ ClientFrame

\* The second loop: get_or_insert_counterpart_calendar calls get_calendar,
\* which calls populate_calendars; for a calendar the server does not have,
\* create_calendar calls populate_calendars, sends MKCALENDAR and calls
\* get_calendar.
ClientNextLocal ==
    /\ client.stage = "loop2"
    /\ \E c \in client.todo \ client.handled :
        LET found == Populated(client, remote)
            created == [d \in DOMAIN remote \cup {c} |->
                            IF d = c THEN EmptyCalendar(c) ELSE remote[d]]
        IN IF c \in DOMAIN remote
           THEN /\ client.populated < MaxPopulates
                /\ client' = WithObjects([found EXCEPT
                                            !.todo = @ \ {c}, !.stage = "classify",
                                            !.cal_remote = <<found.calendars.v[c], c>>])
                /\ UNCHANGED remote
           ELSE /\ client.populated + 2 < MaxPopulates
                /\ remote' = created
                /\ LET made == Populated(Populated(found, remote), created)
                   IN client' = WithObjects([made EXCEPT
                                                !.todo = @ \ {c}, !.stage = "classify",
                                                !.cal_remote = <<made.calendars.v[c], c>>])
    /\ ClientFrame

\* The second loop is over: sync() returns.
ClientSyncEnd ==
    /\ client.stage = "loop2"
    /\ client.todo \subseteq client.handled
    /\ client' = WithObjects([client EXCEPT !.stage = "idle", !.todo = {}, !.handled = {}])
    /\ UNCHANGED remote
    /\ ClientFrame

\* The server changes an item, by a request of the engine or of another
\* client: the item gets a new version tag.
ServerChangesItem ==
    /\ \E c \in DOMAIN remote :
       \E u \in DOMAIN remote[c].items :
            /\ remote[c].items[u].sync_status.tag < MaxTag
            /\ remote' = [remote EXCEPT ![c].items[u] =
                            mock_remote_calendar_set_name(@, "B", @.sync_status.tag + 1)]
    /\ UNCHANGED client
    /\ ClientFrame

NextClient ==
    \/ ClientSync
    \/ ClientSyncFails
    \/ ClientNextRemote
    \/ ClientClassify
    \/ ClientClassifyFails
    \/ ClientGetItemsByUrl
    \/ ClientPairDone
    \/ ClientGetLocalCalendars
    \/ ClientNextLocal
    \/ ClientSyncEnd
    \/ ServerChangesItem

SpecClient == InitClient /\ [][NextClient]_vars

\* get_item_version_tags was called in the sync() call that runs or ran last.
TagsWereRead == client.stage # "none" /\ client.last.kind # "none"

\* C32: the cached result of get_item_version_tags of a remote calendar is
\* used only within the sync() call that filled it: every sync() call
\* classifies against version tags it got from the server itself, never
\* against a cache an earlier call filled.
C32_FreshVersionTags ==
    TagsWereRead =>
        /\ client.last.filled = client.call
        /\ client.last.kind = "classify" =>
                (~client.last.hit /\ client.last.tags = client.last.reply)

\* A later sync() call classifies a calendar whose version tags are no
\* longer those an earlier call had cached.
C32_Witness ==
    /\ TagsWereRead
    /\ client.call >= 2
    /\ client.last.kind = "classify"
    /\ client.last.cal \in DOMAIN client.earlier
    /\ client.earlier[client.last.cal] # client.last.tags

(***************************************************************************)
(* RemoteCalendar::get_items_by_url: a calendar-multiget REPORT.  The      *)
(* reply is a sequence of response elements, each with an href and, for an *)
(* item the server has, its calendar-data.                                 *)
(***************************************************************************)
\* The sequences without repetition of n elements of S.
Arrangements(S, n) ==
    {q \in [1..n -> S] : \A i, j \in 1..n : q[i] = q[j] => i = j}

\* The lists of URLs asked for.
Requests == UNION {Arrangements(ItemUrls, n) : n \in 1..Cardinality(ItemUrls)}

\* The response element of the server for one href.
Response(cal, u) ==
    [href |-> u,
     calendar_data |-> IF u \in DOMAIN cal.items THEN Some(cal.items[u]) ELSE None]

\* The replies a server can give: a response for every item it has, and
\* for an item it does not have a response without calendar-data or no
\* response, in any order.
Replies(cal, urls) ==
    LET found == {Response(cal, u) : u \in Range(urls) \cap DOMAIN cal.items}
        missing == {Response(cal, u) : u \in Range(urls) \ DOMAIN cal.items}
    IN UNION {Arrangements(found \cup m, Cardinality(found \cup m)) :
                    m \in SUBSET missing}

\* RemoteCalendar::get_items_by_url after the REPORT: the loop over
\* xml_replies pushes Some(item) for each response, in the order of the
\* reply; a response without calendar-data, or whose href has no cached
\* version tag, ends the call with an error.
RECURSIVE remote_get_items_by_url(_, _, _)
remote_get_items_by_url(xml_replies, version_tags, results) ==
    IF xml_replies = << >> THEN [ok |-> TRUE, items |-> results]
    ELSE LET xml_reply == Head(xml_replies)
         IN IF ~xml_reply.calendar_data.some THEN [ok |-> FALSE, items |-> << >>]
            ELSE IF xml_reply.href \notin DOMAIN version_tags
                 THEN [ok |-> FALSE, items |-> << >>]
            ELSE remote_get_items_by_url(
                    Tail(xml_replies), version_tags,
                    Append(results,
                           Some(set_sync_status(xml_reply.calendar_data.v,
                                                Synced(version_tags[xml_reply.href])))))

\* A remote calendar, the URLs asked for and the reply of the server.
InitMultiget ==
    /\ local = EmptyMap
    /\ start = [local |-> EmptyMap, remote |-> EmptyMap]
    /\ pc = "idle" /\ n_errors = 0 /\ todo = {} /\ handled = {} /\ loop = 1
    /\ cur = "" /\ sets = NoSets /\ inflight = NoOp /\ result = "none"
    /\ faults = 0 /\ call = NewCall /\ lock = Unlocked /\ ical = NoIcal
    /\ mock = NoMock
    /\ folder = NoFolder /\ user = NoUser /\ event = feedback_channel
    /\ \E present \in SUBSET UrlsOf("c1") :
            remote = [c \in {"c1"} |->
                        [EmptyCalendar(c) EXCEPT
                            !.items = [u \in present |-> BaseItem(u)]]]
    /\ \E urls \in Requests :
       \E xml_replies \in Replies(remote["c1"], urls) :
            client = [stage |-> "request", urls |-> urls, xml_replies |-> xml_replies,
                      version_tags |-> get_item_version_tags(remote["c1"])]

\* cal_remote.get_items_by_url(urls) returns.
Multiget ==
    /\ client.stage = "request"
    /\ client' = [stage |-> "replied", urls |-> client.urls,
                  xml_replies |-> client.xml_replies,
                  version_tags |-> client.version_tags,
                  result |-> remote_get_items_by_url(client.xml_replies,
                                                     client.version_tags, << >>)]
    /\ UNCHANGED remote
    /\ ClientFrame

NextMultiget == Multiget

SpecMultiget == InitMultiget /\ [][NextMultiget]_vars

\* What the server stores at a URL, as an entry of the result.
StoredAt(u) ==
    IF u \in DOMAIN remote["c1"].items THEN Some(remote["c1"].items[u]) ELSE None

\* C33: get_items_by_url(urls) on a remote calendar returns a list as long
\* as urls whose i-th entry is the item stored at urls[i], or None when the
\* server has no item there, whatever the order of the server's reply.
C33_PositionalReply ==
    client.stage = "replied" =>
        /\ client.result.ok
        /\ Len(client.result.items) = Len(client.urls)
        /\ \A k \in DOMAIN client.urls : client.result.items[k] = StoredAt(client.urls[k])

\* What the function does guarantee: a call that succeeds returns the items
\* of the responses, in the order of the reply.
C33_ReplyOrder ==
    (client.stage = "replied" /\ client.result.ok) =>
        /\ Len(client.result.items) = Len(client.xml_replies)
        /\ \A k \in DOMAIN client.xml_replies :
                client.result.items[k] = StoredAt(client.xml_replies[k].href)

\* The server has every item asked for and lists them in another order.
C33_Witness ==
    /\ client.stage = "replied"
    /\ client.result.ok
    /\ Range(client.urls) \subseteq DOMAIN remote["c1"].items
    /\ Len(client.urls) = 2
    /\ client.result.items[1] = StoredAt(client.urls[2])

(***************************************************************************)
(* MockBehaviour (src/src/mock_behaviour.rs): the fault injector of the    *)
(* mocked remote source.  Each operation has a pair (remaining successes,  *)
(* remaining failures).                                                    *)
(***************************************************************************)
\* Three of the seven operations of MockBehaviour; the seven can_* functions
\* differ only by the field they pass to decrement.
MockedOperations == {"get_calendars", "create_calendar", "add_item"}

\* decrement, but the failures are consumed before the successes.
decrement_failures_first(value) ==
    IF value[2] > 0 THEN [ok |-> FALSE, value |-> <<value[1], value[2] - 1>>]
    ELSE IF value[1] > 0 THEN [ok |-> TRUE, value |-> <<value[1] - 1, value[2]>>]
    ELSE [ok |-> TRUE, value |-> value]

\* decrement: Ok for (1+, _) and (_, 0), else Err; the counter consulted
\* goes down by one.
decrement(value) ==
    LET remaining_successes == value[1]
        remaining_failures == value[2]
    IN IF remaining_successes > 0
       THEN [ok |-> TRUE, value |-> <<value[1] - 1, value[2]>>]
       ELSE IF remaining_failures > 0
            THEN [ok |-> FALSE, value |-> <<value[1], value[2] - 1>>]
            ELSE [ok |-> TRUE, value |-> value]

\* MockBehaviour::can_get_calendars, can_create_calendar, can_add_item, ...
can(behaviour, operation) ==
    IF behaviour.is_suspended THEN [ok |-> TRUE, behaviour |-> behaviour]
    ELSE LET d == decrement(behaviour.values[operation])
         IN [ok |-> d.ok,
             behaviour |-> [behaviour EXCEPT !.values[operation] = d.value]]

\* A MockBehaviour as a test configures it, and what is recorded of the
\* calls made on it: how it was configured, how many calls each operation
\* got while it was active, and the latest call.
NewMock(values) ==
    [stage |-> "mock",
     behaviour |-> [is_suspended |-> FALSE, values |-> values],
     configured |-> values,
     active_calls |-> [o \in MockedOperations |-> 0],
     calls |-> 0,
     last |-> NoRead]

InitMock ==
    /\ local = EmptyMap /\ remote = EmptyMap
    /\ start = [local |-> EmptyMap, remote |-> EmptyMap]
    /\ pc = "idle" /\ n_errors = 0 /\ todo = {} /\ handled = {} /\ loop = 1
    /\ cur = "" /\ sets = NoSets /\ inflight = NoOp /\ result = "none"
    /\ faults = 0 /\ call = NewCall /\ lock = Unlocked /\ ical = NoIcal
    /\ folder = NoFolder /\ user = NoUser /\ event = feedback_channel
    /\ client = NoClient
    /\ \E values \in [MockedOperations -> (0..MaxCount) \X (0..MaxCount)] :
            mock = NewMock(values)

MockFrame ==
    UNCHANGED <<local, remote, pc, n_errors, todo, handled, loop, cur, sets, inflight,
                result, faults, call, lock, start, client, ical, folder, user, event>>

\* MockBehaviour::suspend
Suspend ==
    /\ mock.stage = "mock"
    /\ ~mock.behaviour.is_suspended
    /\ mock' = [mock EXCEPT !.behaviour.is_suspended = TRUE]
    /\ MockFrame

\* MockBehaviour::resume
Resume ==
    /\ mock.stage = "mock"
    /\ mock.behaviour.is_suspended
    /\ mock' = [mock EXCEPT !.behaviour.is_suspended = FALSE]
    /\ MockFrame

\* A mocked operation asks the injector whether it may succeed.
Can(operation) ==
    /\ mock.stage = "mock"
    /\ mock.calls < MaxCalls
    /\ LET r == can(mock.behaviour, operation)
       IN mock' = [mock EXCEPT
                    !.behaviour = r.behaviour,
                    !.calls = @ + 1,
                    !.active_calls[operation] =
                        IF mock.behaviour.is_suspended THEN @ ELSE @ + 1,
                    !.last = [kind |-> "can", operation |-> operation, ok |-> r.ok,
                              suspended |-> mock.behaviour.is_suspended]]
    /\ MockFrame

NextMock ==
    \/ Suspend
    \/ Resume
    \/ \E operation \in MockedOperations : Can(operation)

SpecMock == InitMock /\ [][NextMock]_vars

Min(a, b) == IF a < b THEN a ELSE b
Max(a, b) == IF a < b THEN b ELSE a

\* C34: with (m, n) configured for an operation, of the calls made while the
\* injector is not suspended the first m succeed, the next n fail and the
\* later ones succeed; each operation has its own counters; a call made
\* while the injector is suspended succeeds and consumes nothing.
C34_FaultInjector ==
    mock.stage = "mock" =>
        /\ \A o \in MockedOperations :
            LET m == mock.configured[o][1]
                n == mock.configured[o][2]
                k == mock.active_calls[o]
            IN mock.behaviour.values[o] = <<m - Min(k, m), n - Min(Max(k - m, 0), n)>>
        /\ mock.last.kind = "can" =>
            LET m == mock.configured[mock.last.operation][1]
                n == mock.configured[mock.last.operation][2]
                k == mock.active_calls[mock.last.operation]
            IN IF mock.last.suspended THEN mock.last.ok
               ELSE mock.last.ok <=> (k <= m \/ k > m + n)

\* An operation succeeds after its m successes and n failures are used up,
\* while another operation still has its own, and a suspended call was made.
C34_Witness ==
    /\ mock.stage = "mock"
    /\ mock.last.kind = "can" /\ mock.last.ok /\ ~mock.last.suspended
    /\ mock.configured[mock.last.operation] = <<1, 1>>
    /\ mock.active_calls[mock.last.operation] = 3
    /\ mock.calls > mock.active_calls["get_calendars"]
                    + mock.active_calls["create_calendar"]
                    + mock.active_calls["add_item"]
    /\ \E o \in MockedOperations : mock.behaviour.values[o] = <<1, 1>>

(***************************************************************************)
(* What the engine passes to the remote calendar.                          *)
(***************************************************************************)
\* The classification of a pair ends.
Classified == pc = "classify" /\ pc' = "apply"

\* The version tags the classification read from the remote calendar.
TagsRead == get_item_version_tags(remote[cur])

\* The engine calls a remote operation on URL u at a step of the
\* reconciliation: the call reaches the server (inflight), or it fails or
\* is refused and the URL leaves the set of the step.
CallsRemote(step, u) ==
    /\ pc = "apply" /\ pc' = "apply" /\ inflight = NoOp /\ CurrentStep = step
    /\ u \in sets[step]
    /\ \/ inflight' # NoOp /\ inflight'.url = u
       \/ inflight' = NoOp /\ u \notin sets'[step]

\* C35: during a sync, delete_item is called on the remote calendar only
\* for a URL whose local item is LocallyDeleted(v), v being the version tag
\* of the remote item read during the classification: never for a
\* tombstone taken against an older version, nor for another local status.
C35_DeleteOnlyCurrentTombstones ==
    [][/\ Classified =>
            \A u \in sets'.local_del :
                /\ u \in DOMAIN TagsRead /\ u \in DOMAIN local[cur].items
                /\ local[cur].items[u].sync_status = LocallyDeleted(TagsRead[u])
       /\ (pc = "apply" /\ pc' = "apply") => sets'.local_del \subseteq sets.local_del
       /\ \A u \in ItemUrls :
            CallsRemote("local_del", u) =>
                /\ u \in DOMAIN local[cur].items
                /\ local[cur].items[u].sync_status.kind = "LocallyDeleted"
                /\ u \in DOMAIN remote[cur].items =>
                        local[cur].items[u].sync_status.tag
                            = remote[cur].items[u].sync_status.tag
       /\ (inflight = NoOp /\ inflight'.op = "delete_item") =>
                CallsRemote("local_del", inflight'.url)]_vars

\* delete_item has reached the server for a tombstone taken against the
\* version the remote holds, in a reconciliation that also found an item
\* the remote has changed.
C35_Witness ==
    /\ pc = "apply"
    /\ inflight.op = "delete_item"
    /\ local[cur].items[inflight.url].sync_status.kind = "LocallyDeleted"
    /\ inflight.url \notin DOMAIN remote[cur].items
    /\ sets.remote_changes # {}

\* C39: whenever the engine calls update_item on the remote calendar, the
\* item passed is LocallyModified(v), v being the version tag of the remote
\* item read during the classification of the same reconciliation; it is
\* never NotSynced or Synced.
C39_UpdateOnlyCurrentModifications ==
    [][/\ Classified =>
            \A u \in sets'.local_changes :
                /\ u \in DOMAIN TagsRead /\ u \in DOMAIN local[cur].items
                /\ local[cur].items[u].sync_status = LocallyModified(TagsRead[u])
       /\ (pc = "apply" /\ pc' = "apply") =>
                sets'.local_changes \subseteq sets.local_changes
       /\ \A u \in ItemUrls :
            CallsRemote("local_changes", u) =>
                /\ u \in DOMAIN local[cur].items
                /\ u \in DOMAIN remote[cur].items
                /\ local[cur].items[u].sync_status
                        = LocallyModified(remote[cur].items[u].sync_status.tag)
       /\ (inflight = NoOp /\ inflight'.op = "update_item") =>
                CallsRemote("local_changes", inflight'.url)]_vars

\* update_item has reached the server for an item modified locally, in a
\* reconciliation that also found an item modified on both sides.
C39_Witness ==
    /\ pc = "apply"
    /\ inflight.op = "update_item"
    /\ local[cur].items[inflight.url].sync_status.kind = "LocallyModified"
    /\ call.conflicts > 0

\* No sync() has returned yet and the sources, which are as they were at
\* the start, are converged: the first sync() started converged.
StartedConverged ==
    /\ result = "none"
    /\ local = start.local /\ remote = start.remote
    /\ Converged

C38_FailedCreateChangesNothing ==
    [][(UserStep("create_calendar") /\ ~LastCall.ok) => local' = local]_vars

\* What the failed call keeps: the calendars of the other URLs, and a
\* calendar at the URL.
C38_FailedCreateKeepsOthers ==
    [][(UserStep("create_calendar") /\ ~LastCall.ok) =>
            /\ DOMAIN local' = DOMAIN local
            /\ \A c \in DOMAIN local : c # LastCall.cal => local'[c] = local[c]]_vars

\* create_calendar has just failed on a URL whose calendar held items, and
\* the calendar now at the URL holds none.
C38_Witness ==
    /\ user # NoUser
    /\ user[Len(user)].op = "create_calendar"
    /\ ~user[Len(user)].ok
    /\ pc = "idle" /\ result = "none"
    /\ DOMAIN start.local[user[Len(user)].cal].items # {}
    /\ DOMAIN local[user[Len(user)].cal].items = {}

(***************************************************************************)
(* get_or_insert_counterpart_calendar (src/src/provider/mod.rs:487-514),   *)
(* call by call: the loop asks the haystack for the calendar, creates it   *)
(* when there is none and asks again.  The haystack is a Cache (the local  *)
(* source, or the mocked remote with its fault injector) or a Client; its  *)
(* calendars are the variable remote.                                      *)
(***************************************************************************)
Haystacks == {"Cache", "Client"}

\* The loop is entered for calendar c.
NewLoop(haystack, c) ==
    [stage |-> "get_calendar", haystack |-> haystack, cal_url |-> c,
     get_calendars |-> 0, create_calendars |-> 0, mkcalendars |-> 0, outcome |-> "none"]

InitLoop ==
    /\ local = EmptyMap
    /\ start = [local |-> EmptyMap, remote |-> EmptyMap]
    /\ pc = "idle" /\ n_errors = 0 /\ todo = {} /\ handled = {} /\ loop = 1
    /\ cur = "" /\ sets = NoSets /\ inflight = NoOp /\ result = "none"
    /\ faults = 0 /\ call = NewCall /\ lock = Unlocked /\ ical = NoIcal
    /\ folder = NoFolder /\ user = NoUser /\ event = feedback_channel
    /\ mock = NoMock
    /\ \E cals \in SUBSET CalendarIds :
       \E present \in SUBSET ItemUrls :
            remote = [c \in cals |->
                        [EmptyCalendar(c) EXCEPT
                            !.items = [u \in UrlsOf(c) \cap present |-> BaseItem(u)]]]
    /\ \E haystack \in Haystacks : \E c \in CalendarIds : client = NewLoop(haystack, c)

LoopFrame ==
    UNCHANGED <<local, pc, n_errors, todo, handled, loop, cur, sets, inflight, result,
                call, lock, start, mock, ical, folder, user, event>>

\* The loop ends: break Ok(cal) or return Err(err).
LoopReturns(outcome) == [client EXCEPT !.stage = "returned", !.outcome = outcome]

\* haystack.get_calendar(&cal_url) on a Cache: a lookup in the map, which
\* the fault injector does not cover.
CacheGetCalendar ==
    /\ client.stage = "get_calendar" /\ client.haystack = "Cache"
    /\ client' = IF has_calendar(remote, client.cal_url)
                 THEN [LoopReturns("Ok") EXCEPT !.get_calendars = @ + 1]
                 ELSE [client EXCEPT !.stage = "create_calendar", !.get_calendars = @ + 1]
    /\ UNCHANGED <<remote, faults>>
    /\ LoopFrame

\* haystack.create_calendar on a Cache that the fault injector fails.
CacheCreateCalendarFails ==
    /\ client.stage = "create_calendar" /\ client.haystack = "Cache"
    /\ Fault
    /\ client' = [LoopReturns("Err") EXCEPT !.create_calendars = @ + 1]
    /\ UNCHANGED remote
    /\ LoopFrame

\* haystack.create_calendar on a Cache: Err ends the loop, Ok starts it again.
CacheCreateCalendar ==
    /\ client.stage = "create_calendar" /\ client.haystack = "Cache"
    /\ LET r == create_calendar(remote, client.cal_url, CalName(client.cal_url),
                                CalComps(client.cal_url), CalColor(client.cal_url))
       IN /\ remote' = r.source
          /\ client' = IF r.ok
                       THEN [client EXCEPT !.stage = "get_calendar",
                                           !.create_calendars = @ + 1]
                       ELSE [LoopReturns("Err") EXCEPT !.create_calendars = @ + 1]
    /\ UNCHANGED faults
    /\ LoopFrame

\* Client::get_calendar: populate_calendars, then a lookup in the
\* calendars found.
ClientGetCalendar ==
    /\ client.stage = "get_calendar" /\ client.haystack = "Client"
    /\ client' = IF has_calendar(remote, client.cal_url)
                 THEN [LoopReturns("Ok") EXCEPT !.get_calendars = @ + 1]
                 ELSE [client EXCEPT !.stage = "create_calendar", !.get_calendars = @ + 1]
    /\ UNCHANGED <<remote, faults>>
    /\ LoopFrame

\* Client::get_calendar when populate_calendars fails: a warning is logged
\* and the result is None, whatever the server holds.
ClientGetCalendarFails ==
    /\ client.stage = "get_calendar" /\ client.haystack = "Client"
    /\ Fault
    /\ client' = [client EXCEPT !.stage = "create_calendar", !.get_calendars = @ + 1]
    /\ UNCHANGED remote
    /\ LoopFrame

\* Client::create_calendar when its populate_calendars fails, or finds the
\* calendar ("This calendar already exists"): Err, without a request.
ClientCreateCalendarRefused ==
    /\ client.stage = "create_calendar" /\ client.haystack = "Client"
    /\ \/ Fault
       \/ has_calendar(remote, client.cal_url) /\ UNCHANGED faults
    /\ client' = [LoopReturns("Err") EXCEPT !.create_calendars = @ + 1]
    /\ UNCHANGED remote
    /\ LoopFrame

\* Client::create_calendar sends MKCALENDAR, which fails: the status is not
\* CREATED or no response comes, whether the server made the calendar or not.
ClientCreateCalendarFails ==
    /\ client.stage = "create_calendar" /\ client.haystack = "Client"
    /\ ~has_calendar(remote, client.cal_url)
    /\ Fault
    /\ client' = [LoopReturns("Err") EXCEPT !.create_calendars = @ + 1,
                                            !.mkcalendars = @ + 1]
    /\ \/ UNCHANGED remote
       \/ remote' = create_calendar(remote, client.cal_url, CalName(client.cal_url),
                                    CalComps(client.cal_url), "no color").source
    /\ LoopFrame

\* Client::create_calendar sends MKCALENDAR and the server answers CREATED;
\* the get_calendar that ends the function finds the calendar (Ok, and the
\* loop starts again) or its populate_calendars fails ("Unable to insert").
ClientCreateCalendar ==
    /\ client.stage = "create_calendar" /\ client.haystack = "Client"
    /\ ~has_calendar(remote, client.cal_url)
    /\ remote' = create_calendar(remote, client.cal_url, CalName(client.cal_url),
                                 CalComps(client.cal_url), "no color").source
    /\ \/ /\ UNCHANGED faults
          /\ client' = [client EXCEPT !.stage = "get_calendar",
                                      !.create_calendars = @ + 1, !.mkcalendars = @ + 1]
       \/ /\ Fault
          /\ client' = [LoopReturns("Err") EXCEPT !.create_calendars = @ + 1,
                                                  !.mkcalendars = @ + 1]
    /\ LoopFrame

NextLoop ==
    \/ CacheGetCalendar
    \/ CacheCreateCalendarFails
    \/ CacheCreateCalendar
    \/ ClientGetCalendar
    \/ ClientGetCalendarFails
    \/ ClientCreateCalendarRefused
    \/ ClientCreateCalendarFails
    \/ ClientCreateCalendar

SpecLoop == InitLoop /\ [][NextLoop]_vars

InLoop == client.stage \in {"get_calendar", "create_calendar", "returned"}

\* C40: every sync() call terminates whatever remote operations fail: the
\* get-or-create loop for a counterpart calendar issues at most one
\* create_calendar call per calendar and then returns either a calendar
\* handle or the creation error; it never loops indefinitely.
C40_AtMostOneCreate ==
    InLoop =>
        /\ client.create_calendars <= 1
        /\ client.get_calendars <= 2
        /\ client.stage # "returned" => ENABLED NextLoop

\* What holds: on a Cache the loop calls create_calendar at most once; on a
\* Client at most twice, the second time only after the get_calendar that
\* follows a successful creation failed, and it sends at most one
\* MKCALENDAR; the loop can always go on until it returns, after at most
\* three get_calendar calls, a handle of a calendar the haystack holds or
\* an error.
C40_BoundedCreates ==
    InLoop =>
        /\ client.haystack = "Cache" => client.create_calendars <= 1
        /\ client.create_calendars <= 2 /\ client.mkcalendars <= 1
        /\ client.get_calendars <= client.create_calendars + 1
        /\ client.stage # "returned" => ENABLED NextLoop
        /\ client.outcome = "Ok" => has_calendar(remote, client.cal_url)
        /\ client.outcome = "Err" => client.create_calendars >= 1

\* With the loop bounded, a sync() that has started returns: its two loops
\* go through finite sets of calendars and its steps through finite sets of
\* URLs (under SpecFair, where a call that can take a step takes one).
C40_SyncReturns == (pc # "idle") ~> (pc = "idle")

\* The loop on a Client returned the error of a second create_calendar
\* call, after the first one had created the calendar.
C40_Witness ==
    /\ InLoop /\ client.stage = "returned"
    /\ client.haystack = "Client"
    /\ client.outcome = "Err"
    /\ client.create_calendars = 2
    /\ client.mkcalendars = 1
    /\ has_calendar(remote, client.cal_url)

(***************************************************************************)
(* The remote source as a server other clients write to: an item may leave *)
(* the server between the classification of a pair and the batched fetch   *)
(* of the remote additions and changes.                                    *)
(***************************************************************************)
\* The URLs classified as remote additions or remote changes that are not
\* fetched yet.
ToFetch == sets.remote_additions \cup sets.remote_changes

\* Another client deletes from the server an item the engine has classified
\* and not fetched yet.
ServerRemovesItem ==
    /\ pc = "apply" /\ inflight = NoOp
    /\ \E u \in ToFetch \cap DOMAIN remote[cur].items :
            remote' = [remote EXCEPT ![cur] = RemoveItem(@, u)]
    /\ UNCHANGED <<local, pc, n_errors, todo, handled, loop, cur, sets, inflight, result,
                   faults, call, lock, start, client, mock, ical, folder, user, event>>

\* cal_remote.get_items_by_url for a batch with a URL the server no longer
\* holds, when the reply has a response without calendar-data for it: the
\* call returns Err ("Missing calendar-data") and the batch is skipped with
\* a warning.  (When the reply has no response for it the call returns the
\* other items: FetchBatchAndApply.)
FetchBatchMissingData ==
    /\ pc = "apply" /\ CurrentStep \in {"remote_additions", "remote_changes"}
    /\ \E b \in Batches(sets[CurrentStep]) :
        /\ ~(b \subseteq DOMAIN remote[cur].items)
        /\ sets' = AfterFailure(sets, CurrentStep, b)
        /\ call' = [call EXCEPT !.failed = @ \cup b]
    /\ n_errors' = warn(n_errors)
    /\ UNCHANGED <<local, remote, pc, todo, handled, loop, cur, inflight, result, faults,
                   lock, start, client, mock, ical, folder, user, event>>

NextRace ==
    \/ Next
    \/ ServerRemovesItem
    \/ FetchBatchMissingData

SpecRace == Init /\ [][NextRace]_vars

\* The engine is done with a batch of a step: the URLs of the batch.
BatchDone(step) ==
    IF pc = "apply" /\ pc' = "apply" /\ CurrentStep = step
    THEN sets[step] \ sets'[step] ELSE {}

\* C37: every URL classified as a remote addition or a remote change is, by
\* the end of the reconciliation, applied to the local calendar or accounted
\* for by a logged error or warning, which makes sync() return false; none
\* is silently left unapplied, also when the batched fetch returns fewer
\* items than were requested.
C37_NoSilentSkip ==
    [][\A step \in {"remote_additions", "remote_changes"} :
        \A u \in BatchDone(step) :
            \/ /\ u \in DOMAIN remote[cur].items
               /\ u \in DOMAIN local'[cur].items
               /\ local'[cur].items[u] = remote[cur].items[u]
            \/ ~is_success(n_errors')]_vars

\* A sync() has returned true although a URL it had classified as a remote
\* change was not applied: the local calendar holds, as Synced, an item the
\* server no longer has.
C37_Witness ==
    /\ Returned("true")
    /\ \E c \in DOMAIN local \cap DOMAIN remote :
       \E u \in DOMAIN local[c].items :
            /\ u \notin DOMAIN remote[c].items
            /\ local[c].items[u].sync_status.kind = "Synced"

====
